---- MODULE Spec2Model ----
(***************************************************************************)
(* A model of masbentor/scheduler: the rotation engine                     *)
(* (SchedulerService.generate_monthly_schedule and the legacy              *)
(* Scheduler.generate_monthly_schedule), the day classifier and weight     *)
(* model (DayWeightService, LongWeekendService) and the fairness ledger    *)
(* (AssignmentHistoryService.record_assignment).                           *)
(*                                                                         *)
(* Conventions.  A Python date is its proleptic Gregorian ordinal          *)
(* (date.toordinal()).  A "%Y-%m-%d" string is the triple <<y, m, d>> of   *)
(* its zero-padded fields, compared lexicographically as the strings are.  *)
(* None is the integer NoneVal.  A float weight w is the integer 10 * w.   *)
(* An insertion-ordered dict is a sequence of its entries.                 *)
(***************************************************************************)
EXTENDS Integers, Sequences, FiniteSets, TLC

\* ------------------------------------------------------------------ bounds

\* The largest number of generate_monthly_schedule runs of one behaviour.
MaxRuns == 2

\* Direct record_assignment calls made on the ledger.
MaxRecords == 3

\* The person names, in the order the initial constraint dict lists them.
PersonOrder == <<"A", "B", "C">>

Persons == {PersonOrder[i] : i \in 1..Len(PersonOrder)}

\* The group ids of an initial registry, in registration order.
GroupIds == <<"g1", "g2">>

NoneVal == -1

\* ---------------------------------------------------------------- calendar

IsLeap(y) == (y % 4 = 0) /\ ((y % 100 # 0) \/ (y % 400 = 0))

\* calendar.monthrange(year, month)[1]
DaysInMonth(y, m) ==
    IF m = 2 THEN (IF IsLeap(y) THEN 29 ELSE 28)
    ELSE IF m \in {4, 6, 9, 11} THEN 30 ELSE 31

\* Days in the months of year y before month m.
RECURSIVE DaysBeforeMonth(_, _)
DaysBeforeMonth(y, m) ==
    IF m <= 1 THEN 0 ELSE DaysBeforeMonth(y, m - 1) + DaysInMonth(y, m - 1)

\* Days before January 1st of year y.
DaysBeforeYear(y) ==
    LET p == y - 1 IN p * 365 + (p \div 4) - (p \div 100) + (p \div 400)

\* date(y, m, d).toordinal(); datetime(y, m, d).date()
ToOrdinal(y, m, d) == DaysBeforeYear(y) + DaysBeforeMonth(y, m) + d

\* date.weekday(): Monday is 0, Sunday is 6.
Weekday(date) == (date + 6) % 7

\* datetime(y, m, d).strftime("%Y-%m-%d")
StrfTime(y, m, d) == <<y, m, d>>

\* timedelta(days=2) in place of days=1, within the month.
TwoDaysAgoStr(y, m, d) == StrfTime(y, m, d - 2)

\* (datetime(y, m, d) - timedelta(days=1)).strftime("%Y-%m-%d")
YesterdayStr(y, m, d) ==
    IF d > 1 THEN StrfTime(y, m, d - 1)
    ELSE IF m > 1 THEN StrfTime(y, m - 1, DaysInMonth(y, m - 1))
    ELSE StrfTime(y - 1, 12, 31)

\* s < t for two "%Y-%m-%d" strings.
StrLess(s, t) ==
    \/ s[1] < t[1]
    \/ s[1] = t[1] /\ s[2] < t[2]
    \/ s[1] = t[1] /\ s[2] = t[2] /\ s[3] < t[3]

\* range(1, num_days): the loop that stops a day early.
DayRangeShort(num_days) == 1..(num_days - 1)

\* range(1, num_days + 1)
DayRange(num_days) == 1..num_days

\* ------------------------------------------------- day types and weights

\* DayType (models/assignment_history_db.py)
DayTypes == {"regular", "friday", "weekend", "holiday", "long_weekend_middle"}

\* DayWeightService.__init__: the default weights, in tenths.
DefaultWeights ==
    [t \in DayTypes |->
        CASE t = "regular" -> 10
          [] t = "friday" -> 12
          [] t = "weekend" -> 15
          [] t = "holiday" -> 20
          [] OTHER -> 25]

\* Python truth value of the holidays argument, a list: [] is false (and so
\* is the default None, which is not told apart from [] here).
Truthy(holidays) == Len(holidays) > 0

\* day_type=None, the default of calculate_weight.
NoDayType == "None"

\* DayWeightService.is_weekend
is_weekend(target_date) == Weekday(target_date) >= 5

\* DayWeightService.is_friday
is_friday(target_date) == Weekday(target_date) = 4

\* DayWeightService.get_day_type as the class ends up defining it: the second
\* definition of the name (is_holiday) replaces the first (holidays), so the
\* second positional argument is only tested for truth.
get_day_type(target_date, is_holiday) ==
    IF is_holiday THEN "holiday"
    ELSE IF is_weekend(target_date) THEN "weekend"
    ELSE IF is_friday(target_date) THEN "friday"
    ELSE "regular"

\* DayWeightService.get_base_weight
get_base_weight(w, day_type) == w[day_type]

\* set_weight without the test of the sign.
set_weight_unchecked(w, day_type, weight) ==
    [exc |-> "", weights |-> [w EXCEPT ![day_type] = weight]]

\* DayWeightService.set_weight: what it raises ("" when nothing) and the
\* _weights it leaves.
set_weight(w, day_type, weight) ==
    IF weight <= 0
    THEN [exc |-> "ValueError", weights |-> w]
    ELSE [exc |-> "", weights |-> [w EXCEPT ![day_type] = weight]]

\* DayWeightService.calculate_weight with a day type given.
calculate_weight(w, target_date, day_type) ==
    IF day_type = NoDayType
    THEN get_base_weight(w, get_day_type(target_date, FALSE))
    ELSE get_base_weight(w, day_type)

\* DayWeightService.calculate_weight(target_date, holidays), a list in the
\* place of day_type: a list is not None, so get_base_weight is called with
\* it, and a list cannot be a key of _weights (it is unhashable).
calculate_weight_of_list(w, target_date, holidays) ==
    [exc |-> "TypeError", returned |-> NoneVal]

\* ------------------------------------------------------------- holidays

\* The validator left out.
validate_end_date_skipped(v, start_date) == ""

\* Holiday.validate_end_date: what it raises, "" when it returns v.
validate_end_date(v, start_date) ==
    IF v # NoneVal /\ v < start_date THEN "ValueError" ELSE ""

\* No Holiday value: the constructor raised.
NoHoliday == [start_date |-> NoneVal, end_date |-> NoneVal]

\* Holiday(start_date=..., end_date=...): what the constructor raises
\* (pydantic turns the validator's ValueError into a ValidationError) and
\* the value it builds.
Holiday(start_date, end_date) ==
    IF validate_end_date(end_date, start_date) # ""
    THEN [exc |-> "ValidationError", holiday |-> NoHoliday]
    ELSE [exc |-> "",
          holiday |-> [start_date |-> start_date, end_date |-> end_date]]

\* The loop of get_dates with "<" in place of "<=".
RECURSIVE DatesWhileBefore(_, _, _)
DatesWhileBefore(current, end_date, dates) ==
    IF current < end_date
    THEN DatesWhileBefore(current + 1, end_date, Append(dates, current))
    ELSE dates

\* Holiday.get_dates: the while loop, from current with the dates so far.
RECURSIVE DatesWhile(_, _, _)
DatesWhile(current, end_date, dates) ==
    IF current <= end_date
    THEN DatesWhile(current + 1, end_date, Append(dates, current))
    ELSE dates

\* Holiday.get_dates: the dates of a holiday, ascending.
get_dates(h) ==
    IF h.end_date = NoneVal \/ h.end_date = h.start_date
    THEN <<h.start_date>>
    ELSE DatesWhile(h.start_date, h.end_date, << >>)

\* LongWeekendService.__init__: _min_long_weekend_days
MinLongWeekendDays == 3

\* LongWeekendService.analyze_period: holiday_dates.get(current), the map in
\* which a later holiday of the list overwrites an earlier one on a date both
\* cover; 0 when no holiday covers the date.
HolidayIndexOf(current, holidays) ==
    LET hits == {i \in 1..Len(holidays) :
                    \E k \in 1..Len(get_dates(holidays[i])) :
                        get_dates(holidays[i])[k] = current}
    IN IF hits = {} THEN 0 ELSE CHOOSE i \in hits : \A j \in hits : j <= i

\* analyze_period without its last branch: no entry for a Monday to
\* Thursday outside the holidays.
analyze_period_day_no_regular(current, holidays) ==
    LET i == HolidayIndexOf(current, holidays) IN
    IF i # 0 THEN
        LET dates == get_dates(holidays[i]) IN
        IF Len(dates) >= MinLongWeekendDays
        THEN (IF current # dates[1] /\ current # dates[Len(dates)]
              THEN "long_weekend_middle" ELSE "holiday")
        ELSE "holiday"
    ELSE IF Weekday(current) >= 5 THEN "weekend"
    ELSE IF Weekday(current) = 4 THEN "friday"
    ELSE NoDayType

\* LongWeekendService.analyze_period, the entry of one date.
analyze_period_day(current, holidays) ==
    LET i == HolidayIndexOf(current, holidays) IN
    IF i # 0 THEN
        LET dates == get_dates(holidays[i]) IN
        IF Len(dates) >= MinLongWeekendDays
        THEN (IF current # dates[1] /\ current # dates[Len(dates)]
              THEN "long_weekend_middle" ELSE "holiday")
        ELSE "holiday"
    ELSE IF Weekday(current) >= 5 THEN "weekend"
    ELSE IF Weekday(current) = 4 THEN "friday"
    ELSE "regular"

\* LongWeekendService.get_middle_days: the while loop, from current with the
\* set so far.
RECURSIVE MiddleWhile(_, _, _)
MiddleWhile(current, end_date, middle_days) ==
    IF current < end_date
    THEN MiddleWhile(current + 1, end_date, middle_days \cup {current})
    ELSE middle_days

\* get_middle_days with the loop running up to end_date included.
get_middle_days_to_end(start_date, end_date) ==
    IF start_date >= end_date THEN {}
    ELSE MiddleWhile(start_date + 1, end_date + 1, {})

\* LongWeekendService.get_middle_days
get_middle_days(start_date, end_date) ==
    IF start_date >= end_date THEN {}
    ELSE MiddleWhile(start_date + 1, end_date, {})

\* LongWeekendService.is_middle_day: the loop over the holidays, returning
\* at the first long holiday that has the date strictly inside.
RECURSIVE is_middle_day(_, _)
is_middle_day(target_date, holidays) ==
    IF holidays = << >> THEN FALSE
    ELSE LET dates == get_dates(Head(holidays))
         IN IF /\ Len(dates) >= MinLongWeekendDays
               /\ \E k \in 1..Len(dates) : dates[k] = target_date
               /\ target_date # dates[1]
               /\ target_date # dates[Len(dates)]
            THEN TRUE
            ELSE is_middle_day(target_date, Tail(holidays))

\* --------------------------------------------------------------- ledger

\* AssignmentHistoryService.record_assignment: the latest record of the
\* (person, group) pair by id, 0 when there is none.
LatestIndex(rows, person, group_id) ==
    LET own == {i \in 1..Len(rows) :
                    rows[i].person = person /\ rows[i].group_id = group_id}
    IN IF own = {} THEN 0 ELSE CHOOSE i \in own : \A j \in own : j <= i

\* The row with the weight the caller supplied in its weight column, the
\* counters still fed with the computed weight.
NewRowSuppliedWeight(rows, hw, a) ==
    LET li == LatestIndex(rows, a.person, a.group_id)
        reg0 == IF li = 0 THEN 0 ELSE rows[li].cumulative_regular_days
        wgt0 == IF li = 0 THEN 0 ELSE rows[li].cumulative_weighted_days
        tot0 == IF li = 0 THEN 0 ELSE rows[li].cumulative_total_days
        weight == calculate_weight(hw, a.assignment_date, a.day_type)
    IN [person |-> a.person,
        group_id |-> a.group_id,
        date |-> a.assignment_date,
        day_type |-> a.day_type,
        weight |-> a.weight,
        cumulative_regular_days |->
            IF a.day_type = "regular" THEN reg0 + 1 ELSE reg0,
        cumulative_weighted_days |-> wgt0 + weight,
        cumulative_total_days |-> tot0 + 1]

\* AssignmentHistoryService.record_assignment: the row it inserts.  hw is the
\* weight table of the service's own DayWeightService.
NewRow(rows, hw, a) ==
    LET li == LatestIndex(rows, a.person, a.group_id)
        reg0 == IF li = 0 THEN 0 ELSE rows[li].cumulative_regular_days
        wgt0 == IF li = 0 THEN 0 ELSE rows[li].cumulative_weighted_days
        tot0 == IF li = 0 THEN 0 ELSE rows[li].cumulative_total_days
        weight == calculate_weight(hw, a.assignment_date, a.day_type)
    IN [person |-> a.person,
        group_id |-> a.group_id,
        date |-> a.assignment_date,
        day_type |-> a.day_type,
        weight |-> weight,
        cumulative_regular_days |->
            IF a.day_type = "regular" THEN reg0 + 1 ELSE reg0,
        cumulative_weighted_days |-> wgt0 + weight,
        cumulative_total_days |-> tot0 + 1]

\* A row added to the session and not committed: no other session sees it.
record_assignment_uncommitted(rows, hw, a) == rows

\* An upsert: the pair's latest row is overwritten instead of a row added.
record_assignment_upsert(rows, hw, a) ==
    IF LatestIndex(rows, a.person, a.group_id) = 0
    THEN Append(rows, NewRow(rows, hw, a))
    ELSE [rows EXCEPT ![LatestIndex(rows, a.person, a.group_id)] =
              NewRow(rows, hw, a)]

\* AssignmentHistoryService.record_assignment: db.add and db.commit.
record_assignment(rows, hw, a) == Append(rows, NewRow(rows, hw, a))

\* get_schedule(year, month): the keys of the Schedule built from the rows
\* that pass the year and month filters (the dates that have a row).
ScheduleKeys(rows, y, m) ==
    LET first == ToOrdinal(y, m, 1)
        last == ToOrdinal(y, m, DaysInMonth(y, m))
    IN {StrfTime(y, m, rows[i].date - first + 1) :
           i \in {i \in 1..Len(rows) :
                     first <= rows[i].date /\ rows[i].date <= last}}

\* get_schedule(year, month): the ids of the rows that pass the year and
\* month filters.
ScheduleRows(rows, y, m) ==
    LET first == ToOrdinal(y, m, 1)
        last == ToOrdinal(y, m, DaysInMonth(y, m))
    IN {i \in 1..Len(rows) : first <= rows[i].date /\ rows[i].date <= last}

\* get_schedule(year, month): the (date_str, group_id) pairs of the Schedule
\* it returns, one for every pair that has a row.
ScheduleEntryKeys(rows, y, m) ==
    LET first == ToOrdinal(y, m, 1)
    IN {<<StrfTime(y, m, rows[i].date - first + 1), rows[i].group_id>> :
           i \in ScheduleRows(rows, y, m)}

\* sum(...) of a sequence of numbers.
RECURSIVE SeqSum(_)
SeqSum(seq) == IF seq = << >> THEN 0 ELSE Head(seq) + SeqSum(Tail(seq))

\* The rows a query's filter(person == ..., group_id == ...) keeps.
RowsOfPair(rows, person, group_id) ==
    LET Test(r) == r.person = person /\ r.group_id = group_id
    IN SelectSeq(rows, Test)

\* func.sum(case((day_type == t, 1), else_=0)) over the rows.
CountOfType(rows, t) ==
    SeqSum([i \in 1..Len(rows) |-> IF rows[i].day_type = t THEN 1 ELSE 0])

\* AssignmentHistoryService.get_person_stats: the AssignmentStats it
\* returns.  The query aggregates regular, weekend and holiday days only;
\* friday_count and long_weekend_days keep the default 0 of the model class.
get_person_stats(rows, person, group_id) ==
    LET own == RowsOfPair(rows, person, group_id)
    IN [total_assignments |-> Len(own),
        total_weighted_score |-> SeqSum([i \in 1..Len(own) |-> own[i].weight]),
        regular_days |-> CountOfType(own, "regular"),
        weekend_days |-> CountOfType(own, "weekend"),
        holiday_days |-> CountOfType(own, "holiday"),
        friday_count |-> 0,
        long_weekend_days |-> 0]

\* AssignmentHistoryService.get_group_stats: the query of the distinct
\* persons of the group, here in the order of their first record.
RECURSIVE PeopleOf(_, _)
PeopleOf(rows, group_id) ==
    IF rows = << >> THEN << >>
    ELSE LET before == PeopleOf(SubSeq(rows, 1, Len(rows) - 1), group_id)
             last == rows[Len(rows)]
         IN IF /\ last.group_id = group_id
               /\ \A i \in 1..Len(before) : before[i] # last.person
            THEN Append(before, last.person)
            ELSE before

\* AssignmentHistoryService.get_group_stats: stats.values()
get_group_stats(rows, group_id) ==
    [i \in 1..Len(PeopleOf(rows, group_id)) |->
        get_person_stats(rows, PeopleOf(rows, group_id)[i], group_id)]

\* The largest k with k * k <= n, n >= 0, sought between lo and hi.
RECURSIVE ISqrtBetween(_, _, _)
ISqrtBetween(n, lo, hi) ==
    IF lo >= hi THEN lo
    ELSE LET mid == (lo + hi + 1) \div 2
         IN IF mid * mid <= n THEN ISqrtBetween(n, mid, hi)
            ELSE ISqrtBetween(n, lo, mid - 1)

\* x ** 0.5, rounded down to a whole number.
ISqrt(n) == ISqrtBetween(n, 0, n)

\* max(...) and min(...) of a non-empty sequence of numbers.
SeqMax(seq) == CHOOSE x \in {seq[i] : i \in 1..Len(seq)} :
                   \A i \in 1..Len(seq) : seq[i] <= x

SeqMin(seq) == CHOOSE x \in {seq[i] : i \in 1..Len(seq)} :
                   \A i \in 1..Len(seq) : x <= seq[i]

\* The variance with len - 1 in place of len (statistics.stdev, which the
\* module imports), times 100; 0 for a single score.
SampleVariance100(scores) ==
    LET n == Len(scores)
        total == SeqSum(scores)
    IN IF n < 2 THEN 0
       ELSE (100 * SeqSum([i \in 1..n |-> (n * scores[i] - total)
                                           * (n * scores[i] - total)]))
                \div (n * n * (n - 1))

\* AssignmentHistoryService.get_fairness_metrics: weighted_variance, times
\* 100 and rounded down.  With mean = total / n, each (x - mean) ** 2 is
\* (n * x - total) ** 2 / n ** 2, and their sum is divided by n.
WeightedVariance100(scores) ==
    LET n == Len(scores)
        total == SeqSum(scores)
    IN (100 * SeqSum([i \in 1..n |-> (n * scores[i] - total)
                                      * (n * scores[i] - total)]))
           \div (n * n * n)

\* AssignmentHistoryService.get_fairness_metrics: scores and differences in
\* tenths, the standard deviation in hundredths (rounded down).
get_fairness_metrics(rows, group_id) ==
    LET stats == get_group_stats(rows, group_id)
        weighted_scores == [i \in 1..Len(stats) |->
                               stats[i].total_weighted_score]
        total_assignments == [i \in 1..Len(stats) |->
                                 stats[i].total_assignments]
    IN IF stats = << >>
       THEN [weighted_std_dev |-> 0, max_weighted_diff |-> 0,
             max_total_diff |-> 0]
       ELSE [weighted_std_dev |-> ISqrt(WeightedVariance100(weighted_scores)),
             max_weighted_diff |->
                 SeqMax(weighted_scores) - SeqMin(weighted_scores),
             max_total_diff |->
                 SeqMax(total_assignments) - SeqMin(total_assignments)]


\* ------------------------------------------------------ rotation engine

\* Settings.min_group_members
MinGroupMembers == 2

\* p in self._person_constraints
HasConstraint(pc, p) == \E i \in 1..Len(pc) : pc[i].person = p

\* self._person_constraints[p]
ConstraintOf(pc, p) == pc[CHOOSE i \in 1..Len(pc) : pc[i].person = p]

\* assignments_count.get(p, 0)
CountOf(counts, p) == IF p \in DOMAIN counts THEN counts[p] ELSE 0

\* last_scheduled.get(p, "0000-00-00")
LastOf(last, p) == IF p \in DOMAIN last THEN last[p] ELSE <<0, 0, 0>>

\* d[k] = v on a dict that is a function.
DictSet(d, k, v) == (k :> v) @@ d

\* The eligible_members condition without its max_days half.
IsEligibleAnyCount(p, last, counts, pc, y, m, d) ==
    \/ p \notin DOMAIN last
    \/ last[p] # YesterdayStr(y, m, d)

\* generate_monthly_schedule: the condition of the eligible_members
\* comprehension.
IsEligible(p, last, counts, pc, y, m, d) ==
    /\ \/ p \notin DOMAIN last
       \/ last[p] # YesterdayStr(y, m, d)
    /\ \/ ~HasConstraint(pc, p)
       \/ ConstraintOf(pc, p).max_days = NoneVal
       \/ CountOf(counts, p) < ConstraintOf(pc, p).max_days

\* generate_monthly_schedule: eligible_members before the fallback.
EligibleMembers(members, last, counts, pc, y, m, d) ==
    LET Test(p) == IsEligible(p, last, counts, pc, y, m, d)
    IN SelectSeq(members, Test)

\* eligible_members without the fallback to members.
CandidatesNoFallback(members, eligible) == eligible

\* generate_monthly_schedule: "if not eligible_members: eligible_members =
\* members".
Candidates(members, eligible) == IF eligible = <<>> THEN members ELSE eligible

\* A min() that returns the last of the elements with the lowest key.
OldestOfLast(seq, last) ==
    LET i == CHOOSE i \in 1..Len(seq) :
                /\ \A j \in 1..Len(seq) :
                      ~StrLess(LastOf(last, seq[j]), LastOf(last, seq[i]))
                /\ \A j \in (i + 1)..Len(seq) :
                      StrLess(LastOf(last, seq[i]), LastOf(last, seq[j]))
    IN seq[i]

\* min(seq, key=lambda p: last_scheduled.get(p, "0000-00-00")): the first
\* element whose key no other element's key is below.
OldestOf(seq, last) ==
    LET i == CHOOSE i \in 1..Len(seq) :
                /\ \A j \in 1..Len(seq) :
                      ~StrLess(LastOf(last, seq[j]), LastOf(last, seq[i]))
                /\ \A j \in 1..(i - 1) :
                      StrLess(LastOf(last, seq[i]), LastOf(last, seq[j]))
    IN seq[i]

\* _select_person with no catch-up: min_day_candidates always empty.
MinDayCandidatesNone(eligible, counts, pc) == << >>

\* _select_person: min_day_candidates
MinDayCandidates(eligible, counts, pc) ==
    LET Test(p) == /\ HasConstraint(pc, p)
                   /\ ConstraintOf(pc, p).min_days # NoneVal
                   /\ CountOf(counts, p) < ConstraintOf(pc, p).min_days
    IN SelectSeq(eligible, Test)

\* _select_person: never_scheduled
NeverScheduled(seq, last) ==
    LET Test(p) == p \notin DOMAIN last IN SelectSeq(seq, Test)

\* _select_person: never_scheduled[0] if any, else the oldest.
PickFrom(seq, last) ==
    IF NeverScheduled(seq, last) # <<>>
    THEN NeverScheduled(seq, last)[1]
    ELSE OldestOf(seq, last)

\* SchedulerService._select_person
select_person(eligible, last, counts, pc) ==
    IF MinDayCandidates(eligible, counts, pc) # <<>>
    THEN PickFrom(MinDayCandidates(eligible, counts, pc), last)
    ELSE PickFrom(eligible, last)

\* The validation of min_days left out.
FirstUnmetSkipped(pc, counts) == 0

\* generate_monthly_schedule: the first person of _person_constraints.items()
\* whose min_days is unmet, as an index; 0 when there is none.
FirstUnmet(pc, counts) ==
    LET bad == {i \in 1..Len(pc) :
                   /\ pc[i].min_days # NoneVal
                   /\ CountOf(counts, pc[i].person) < pc[i].min_days}
    IN IF bad = {} THEN 0 ELSE CHOOSE i \in bad : \A j \in bad : i <= j

\* generate_monthly_schedule: empty_groups
EmptyGroups(gs) ==
    LET Test(g) == g.members = <<>> IN SelectSeq(gs, Test)

\* The min_group_members check left out.
FirstSmallGroupSkipped(gs) == 0

\* generate_monthly_schedule: the first group below min_group_members, as an
\* index; 0 when there is none.
FirstSmallGroup(gs) ==
    LET bad == {i \in 1..Len(gs) : Len(gs[i].members) < MinGroupMembers}
    IN IF bad = {} THEN 0 ELSE CHOOSE i \in bad : \A j \in bad : i <= j

\* last_scheduled kept from one call to the next (an attribute of the
\* service instead of a local).
KeepLastScheduled(old) == old

\* generate_monthly_schedule: "last_scheduled = {}" at the start of a call
\* (old is what the previous call left).
FreshLastScheduled(old) == << >>

\* generate_monthly_schedule: "assignments_count = {}" at the start of a call.
FreshAssignmentsCount(old) == << >>


\* ------------------------------------------------------------- registry

\* person.strip(), for the names used here: a name of blanks becomes empty.
Strip(person) == IF person \in {"", " ", "  "} THEN "" ELSE person

\* self._person_constraints[person] = {'min_days': ..., 'max_days': ...}: an
\* existing key keeps its place in the dict, a new one goes last.
SetConstraint(pc, person, min_days, max_days) ==
    LET entry == [person |-> person, min_days |-> min_days,
                  max_days |-> max_days]
    IN IF HasConstraint(pc, person)
       THEN [i \in 1..Len(pc) |->
                IF pc[i].person = person THEN entry ELSE pc[i]]
       ELSE Append(pc, entry)

\* group_id in self._groups
HasGroup(gs, group_id) == \E i \in 1..Len(gs) : gs[i].id = group_id

\* if group_id not in self._groups: self._groups[group_id] = []
EnsureGroup(gs, group_id) ==
    IF HasGroup(gs, group_id) THEN gs
    ELSE Append(gs, [id |-> group_id, members |-> << >>])

\* self._groups[group_id].append(person), whether or not it is there already.
AddMemberAlways(gs, group_id, person) ==
    [i \in 1..Len(gs) |->
        IF gs[i].id = group_id
        THEN [gs[i] EXCEPT !.members = Append(@, person)]
        ELSE gs[i]]

\* if person not in self._groups[group_id]:
\*     self._groups[group_id].append(person)
AddMember(gs, group_id, person) ==
    [i \in 1..Len(gs) |->
        IF /\ gs[i].id = group_id
           /\ \A k \in 1..Len(gs[i].members) : gs[i].members[k] # person
        THEN [gs[i] EXCEPT !.members = Append(@, person)]
        ELSE gs[i]]

\* add_person_to_group with the constraints stored before the arguments are
\* validated.
add_person_to_group_stored_first(gs, pc, person, group_id, min_days, max_days) ==
    IF \/ Strip(person) = ""
       \/ min_days # NoneVal /\ max_days # NoneVal /\ min_days > max_days
    THEN [exc |-> "ValueError", groups |-> gs,
          person_constraints |-> SetConstraint(pc, person, min_days, max_days)]
    ELSE [exc |-> "",
          groups |-> AddMember(EnsureGroup(gs, group_id), group_id, person),
          person_constraints |-> SetConstraint(pc, person, min_days, max_days)]

\* SchedulerService.add_person_to_group: what it raises ("" when nothing)
\* and the _groups and _person_constraints it leaves.
add_person_to_group(gs, pc, person, group_id, min_days, max_days) ==
    IF Strip(person) = ""
    THEN [exc |-> "ValueError", groups |-> gs, person_constraints |-> pc]
    ELSE IF min_days # NoneVal /\ max_days # NoneVal /\ min_days > max_days
    THEN [exc |-> "ValueError", groups |-> gs, person_constraints |-> pc]
    ELSE [exc |-> "",
          groups |-> AddMember(EnsureGroup(gs, group_id), group_id, person),
          person_constraints |-> SetConstraint(pc, person, min_days, max_days)]

\* The members of group_id ([] when the group is unknown).
MembersIn(gs, group_id) ==
    IF HasGroup(gs, group_id)
    THEN gs[CHOOSE i \in 1..Len(gs) : gs[i].id = group_id].members
    ELSE << >>

\* person in self._groups[group_id]
IsMember(gs, group_id, person) ==
    \E k \in 1..Len(MembersIn(gs, group_id)) :
        MembersIn(gs, group_id)[k] = person

\* bulk_add_groups, the in-memory side: its loop over group_ids.
RECURSIVE BulkAddGroups(_, _)
BulkAddGroups(gs, group_ids) ==
    IF group_ids = << >> THEN gs
    ELSE BulkAddGroups(EnsureGroup(gs, Head(group_ids)), Tail(group_ids))

\* SchedulerService.bulk_add_groups: True, the _groups and the Group table
\* it leaves.
bulk_add_groups(gs, db, group_ids) ==
    [returned |-> TRUE,
     groups |-> BulkAddGroups(gs, group_ids),
     db_groups |-> db \cup {group_ids[i] : i \in 1..Len(group_ids)}]

\* bulk_add_people_to_groups, the inner loop over the people of one group:
\* the constraints are stored when one of the two is given, then the name is
\* appended if it is not a member.
RECURSIVE BulkAddPeople(_, _, _)
BulkAddPeople(st, group_id, people) ==
    IF people = << >> THEN st
    ELSE LET person == Head(people)
             pc1 == IF person.min_days # NoneVal \/ person.max_days # NoneVal
                    THEN SetConstraint(st.person_constraints, person.name,
                                       person.min_days, person.max_days)
                    ELSE st.person_constraints
         IN BulkAddPeople([st EXCEPT
                              !.person_constraints = pc1,
                              !.groups = AddMember(@, group_id, person.name)],
                          group_id, Tail(people))

\* SchedulerService.bulk_add_people_to_groups: the loop over
\* assignments.items(); a group missing from the Group table raises and
\* leaves what the earlier groups of the request have written.
RECURSIVE bulk_add_people_to_groups(_, _, _, _)
bulk_add_people_to_groups(gs, pc, db, assignments) ==
    IF assignments = << >>
    THEN [exc |-> "", groups |-> gs, person_constraints |-> pc]
    ELSE IF Head(assignments).group_id \notin db
    THEN [exc |-> "GroupNotFoundException", groups |-> gs,
          person_constraints |-> pc]
    ELSE LET a == Head(assignments)
             st == BulkAddPeople([exc |-> "",
                                  groups |-> EnsureGroup(gs, a.group_id),
                                  person_constraints |-> pc],
                                 a.group_id, a.people)
         IN bulk_add_people_to_groups(st.groups, st.person_constraints, db,
                                      Tail(assignments))

\* list.remove(x): without the first x.
RemoveFirst(xs, x) ==
    IF \E k \in 1..Len(xs) : xs[k] = x
    THEN LET f == CHOOSE k \in 1..Len(xs) :
                     xs[k] = x /\ \A j \in 1..(k - 1) : xs[j] # x
         IN SubSeq(xs, 1, f - 1) \o SubSeq(xs, f + 1, Len(xs))
    ELSE xs

\* if person in self._person_constraints: del self._person_constraints[person]
DelConstraint(pc, person) ==
    LET Keep(c) == c.person # person
    IN SelectSeq(pc, Keep)

\* remove_person_from_group with the constraints dropped before the group
\* and the membership are looked up.
remove_person_from_group_dropped_first(gs, pc, person, group_id) ==
    IF ~IsMember(gs, group_id, person)
    THEN [returned |-> FALSE, groups |-> gs,
          person_constraints |-> DelConstraint(pc, person)]
    ELSE [returned |-> TRUE,
          groups |-> [i \in 1..Len(gs) |->
                         IF gs[i].id = group_id
                         THEN [gs[i] EXCEPT !.members = RemoveFirst(@, person)]
                         ELSE gs[i]],
          person_constraints |-> DelConstraint(pc, person)]

\* SchedulerService.remove_person_from_group
remove_person_from_group(gs, pc, person, group_id) ==
    IF ~HasGroup(gs, group_id)
    THEN [returned |-> FALSE, groups |-> gs, person_constraints |-> pc]
    ELSE IF ~IsMember(gs, group_id, person)
    THEN [returned |-> FALSE, groups |-> gs, person_constraints |-> pc]
    ELSE [returned |-> TRUE,
          groups |-> [i \in 1..Len(gs) |->
                         IF gs[i].id = group_id
                         THEN [gs[i] EXCEPT !.members = RemoveFirst(@, person)]
                         ELSE gs[i]],
          person_constraints |-> DelConstraint(pc, person)]

\* delete_group, its loop: the constraints of every member are deleted.
RECURSIVE DelConstraints(_, _)
DelConstraints(pc, members) ==
    IF members = << >> THEN pc
    ELSE DelConstraints(DelConstraint(pc, Head(members)), Tail(members))

\* SchedulerService.delete_group
delete_group(gs, pc, group_id) ==
    IF ~HasGroup(gs, group_id)
    THEN [returned |-> FALSE, groups |-> gs, person_constraints |-> pc]
    ELSE LET Keep(g) == g.id # group_id
         IN [returned |-> TRUE,
             groups |-> SelectSeq(gs, Keep),
             person_constraints |->
                 DelConstraints(pc, MembersIn(gs, group_id))]

\* Scheduler.add_person_to_group (the legacy service keeps no constraints)
legacy_add_person_to_group(gs, person, group_id) ==
    AddMember(EnsureGroup(gs, group_id), group_id, person)

\* Scheduler.bulk_add_people_to_groups, the loop over the names of one group.
RECURSIVE LegacyAddPeople(_, _, _)
LegacyAddPeople(gs, group_id, people) ==
    IF people = << >> THEN gs
    ELSE LegacyAddPeople(AddMember(gs, group_id, Head(people).name), group_id,
                         Tail(people))

\* Scheduler.bulk_add_people_to_groups: every group is created if absent.
RECURSIVE legacy_bulk_add_people_to_groups(_, _)
legacy_bulk_add_people_to_groups(gs, assignments) ==
    IF assignments = << >> THEN gs
    ELSE legacy_bulk_add_people_to_groups(
             LegacyAddPeople(EnsureGroup(gs, Head(assignments).group_id),
                             Head(assignments).group_id,
                             Head(assignments).people),
             Tail(assignments))

\* Scheduler.remove_person_from_group
legacy_remove_person_from_group(gs, person, group_id) ==
    IF ~HasGroup(gs, group_id) THEN [returned |-> FALSE, groups |-> gs]
    ELSE IF ~IsMember(gs, group_id, person)
    THEN [returned |-> FALSE, groups |-> gs]
    ELSE [returned |-> TRUE,
          groups |-> [i \in 1..Len(gs) |->
                         IF gs[i].id = group_id
                         THEN [gs[i] EXCEPT !.members = RemoveFirst(@, person)]
                         ELSE gs[i]]]

\* Scheduler.delete_group
legacy_delete_group(gs, group_id) ==
    LET Keep(g) == g.id # group_id
    IN [returned |-> HasGroup(gs, group_id), groups |-> SelectSeq(gs, Keep)]

NoResult ==
    [kind |-> "none", entries |-> << >>, exc |-> "", why |-> "",
     who |-> << >>, required |-> 0, actual |-> 0]

\* ------------------------------------------ legacy Scheduler (in memory)

\* Scheduler.generate_monthly_schedule: the loop that fills eligible_members.
LegacyEligible(members, last, y, m, d) ==
    LET Test(p) == p \notin DOMAIN last \/ last[p] # YesterdayStr(y, m, d)
    IN SelectSeq(members, Test)

\* "oldest_date = None"
NoDateStr == <<0, 0, 0>>

\* "chosen_person = None"
NoPerson == ""

\* Scheduler.generate_monthly_schedule: the loop that chooses among
\* eligible_members, from position i on with the chosen_person and
\* oldest_date so far; a person never scheduled ends it.
RECURSIVE LegacyChooseFrom(_, _, _, _, _)
LegacyChooseFrom(eligible, i, last, chosen, oldest) ==
    IF i > Len(eligible) THEN chosen
    ELSE IF eligible[i] \notin DOMAIN last THEN eligible[i]
    ELSE IF oldest = NoDateStr \/ StrLess(last[eligible[i]], oldest)
    THEN LegacyChooseFrom(eligible, i + 1, last, eligible[i],
                          last[eligible[i]])
    ELSE LegacyChooseFrom(eligible, i + 1, last, chosen, oldest)

\* Scheduler.generate_monthly_schedule: the pick of one group on one day.
LegacyChoose(members, last, y, m, d) ==
    LET eligible == Candidates(members, LegacyEligible(members, last, y, m, d))
        chosen == LegacyChooseFrom(eligible, 1, last, NoPerson, NoDateStr)
    IN IF chosen = NoPerson /\ eligible # << >> THEN eligible[1] ELSE chosen

\* Scheduler.generate_monthly_schedule: one pass of the inner loop on the
\* locals st (day, position gi in self.groups, schedule, day_schedule,
\* last_scheduled); the last group of a day stores the day's entry and moves
\* to the next day.
LegacyIteration(gs, y, m, st) ==
    LET date_str == StrfTime(y, m, st.day)
        chosen == LegacyChoose(gs[st.gi].members, st.last_scheduled,
                               y, m, st.day)
        filled == DictSet(st.day_schedule, gs[st.gi].id, chosen)
        marked == DictSet(st.last_scheduled, chosen, date_str)
    IN IF st.gi < Len(gs)
       THEN [day |-> st.day, gi |-> st.gi + 1, schedule |-> st.schedule,
             day_schedule |-> filled, last_scheduled |-> marked]
       ELSE [day |-> st.day + 1, gi |-> 1,
             schedule |-> DictSet(st.schedule, date_str, filled),
             day_schedule |-> << >>, last_scheduled |-> marked]

\* Scheduler.generate_monthly_schedule: the two loops, continued from the
\* locals st until the last day of the month is done.
RECURSIVE LegacyLoops(_, _, _, _)
LegacyLoops(gs, y, m, st) ==
    IF st.day \notin DayRange(DaysInMonth(y, m))
    THEN st.schedule
    ELSE LegacyLoops(gs, y, m, LegacyIteration(gs, y, m, st))

\* Scheduler.generate_monthly_schedule: the locals before the first day.
LegacyLocals ==
    [day |-> 1, gi |-> 1, schedule |-> << >>, day_schedule |-> << >>,
     last_scheduled |-> << >>]

\* Scheduler.generate_monthly_schedule: the three checks before the loops
\* (each raises ValueError); NoResult when all pass.
LegacyPreconditionError(gs) ==
    IF gs = << >>
    THEN [kind |-> "error", entries |-> << >>, exc |-> "ValueError",
          why |-> "no_groups", who |-> << >>, required |-> 0, actual |-> 0]
    ELSE IF EmptyGroups(gs) # << >>
    THEN [kind |-> "error", entries |-> << >>, exc |-> "ValueError",
          why |-> "empty_groups",
          who |-> [i \in 1..Len(EmptyGroups(gs)) |-> EmptyGroups(gs)[i].id],
          required |-> 0, actual |-> 0]
    ELSE IF \E i \in 1..Len(gs) : Len(gs[i].members) < 2
    THEN [kind |-> "error", entries |-> << >>, exc |-> "ValueError",
          why |-> "too_few_members",
          who |-> <<gs[CHOOSE i \in 1..Len(gs) :
                          /\ Len(gs[i].members) < 2
                          /\ \A j \in 1..(i - 1) : Len(gs[j].members) >= 2].id>>,
          required |-> 2, actual |-> 0]
    ELSE NoResult


\* ------------------------------------------------------------------ state

VARIABLES
    groups,             \* SchedulerService._groups: <<[id, members]>>
    person_constraints, \* SchedulerService._person_constraints:
                        \*   <<[person, min_days, max_days]>>
    weights,            \* SchedulerService.day_weight_service._weights
    hist_weights,       \* AssignmentHistoryService.weight_service._weights
    ledger,             \* the assignment_history table, by id
    status,             \* of generate_monthly_schedule: "idle", "running",
                        \*   "returned" or "raised"
    run,                \* the arguments of the current (or last) call
    day,                \* the outer loop's day
    gidx,               \* the inner loop's position in _groups.items()
    day_schedule,       \* generate_monthly_schedule: day_schedule
    schedule,           \* generate_monthly_schedule: schedule
    last_scheduled,     \* generate_monthly_schedule: last_scheduled
    assignments_count,  \* generate_monthly_schedule: assignments_count
    result,             \* what the call returned or raised
    fallbacks,          \* history: the <<date_str, group_id>> whose
                        \*   eligible_members came out empty in this call
    runs,               \* history: calls started so far
    prev,               \* history: arguments and result of the call before
    legacy_groups,      \* Scheduler.groups: <<[id, members]>>
    legacy_schedule,    \* Scheduler.schedule
    legacy_call,        \* the arguments of the last legacy call and what
                        \*   it returned or raised
    classified,         \* a date, a holiday list, and what get_day_type
                        \*   and analyze_period answered for them
    call,               \* history: the last call made outside a generate
                        \*   run, its arguments and its outcome
    recorded,           \* history: direct record_assignment calls so far
    db_groups           \* the ids of the rows of the Group table (self.db)

vars == <<groups, person_constraints, weights, hist_weights, ledger, status,
          run, day, gidx, day_schedule, schedule, last_scheduled,
          assignments_count, result, fallbacks, runs, prev, legacy_groups,
          legacy_schedule, legacy_call, classified, call, recorded,
          db_groups>>

legacy == <<legacy_groups, legacy_schedule, legacy_call>>

calls == <<call, recorded>>

\* The locals and the outcome of generate_monthly_schedule.
engine == <<status, run, day, gidx, day_schedule, schedule, last_scheduled,
            assignments_count, result, fallbacks, runs, prev>>

registry == <<groups, person_constraints, weights, hist_weights, db_groups>>

\* ------------------------------------------------------- initial states

InjectiveSeqs(S, n) ==
    {s \in [1..n -> S] : \A i, j \in 1..n : i # j => s[i] # s[j]}

\* The member lists of a group: no name twice.
MemberLists == UNION {InjectiveSeqs(Persons, n) : n \in 0..Cardinality(Persons)}

\* The member lists of the first group: persons are named in the order of
\* their first appearance, so its list is a prefix of PersonOrder (any other
\* registry is one of these with the persons renamed).
FirstMemberLists == {SubSeq(PersonOrder, 1, n) : n \in 0..Len(PersonOrder)}

GroupEntry(i, ms) == [id |-> GroupIds[i], members |-> ms]

\* The group dicts SchedulerService._load_from_database can build: none, one
\* or two groups.
InitGroups ==
    {<< >>}
    \cup {<<GroupEntry(1, m1)>> : m1 \in FirstMemberLists}
    \cup {<<GroupEntry(1, m1), GroupEntry(2, m2)>> :
             m1 \in FirstMemberLists, m2 \in MemberLists}

\* The min_days/max_days pairs of an initially constrained person.
ConstraintChoices ==
    {[min_days |-> 17, max_days |-> NoneVal],
     [min_days |-> NoneVal, max_days |-> 1],
     [min_days |-> 2, max_days |-> 3]}

\* The sets of persons that carry a constraint initially: at most one person.
ConstrainedSets == {S \in SUBSET Persons : Cardinality(S) <= 1}

\* The constraint dict of the persons S with the pairs f, in PersonOrder.
ConstraintDict(S, f) ==
    LET Test(p) == p \in S
        ps == SelectSeq(PersonOrder, Test)
    IN [i \in 1..Len(ps) |->
           [person |-> ps[i], min_days |-> f[ps[i]].min_days,
            max_days |-> f[ps[i]].max_days]]

InitConstraints ==
    UNION {{ConstraintDict(S, f) : f \in [S -> ConstraintChoices]} :
              S \in ConstrainedSets}

\* The members of all groups.
AllMembers(gs) ==
    UNION {{gs[i].members[k] : k \in 1..Len(gs[i].members)} : i \in 1..Len(gs)}

NoRun == [year |-> 0, month |-> 0, holidays |-> << >>, num_days |-> 0,
          ledger0 |-> 0]

NoPrev == [valid |-> FALSE, groups |-> << >>, person_constraints |-> << >>,
           year |-> 0, month |-> 0, holidays |-> << >>, result |-> NoResult]

\* SchedulerService.__init__: the registry is what _load_from_database finds
\* (only members carry constraints), the weights are the defaults, and no call
\* has been made.
NoCall == [op |-> "none"]

\* calculate_weight not called yet.
NoPrice == [exc |-> "none", returned |-> NoneVal]

NoClassification ==
    [target_date |-> 0, holidays |-> << >>, get_day_type |-> NoDayType,
     analyze_period |-> NoDayType, calculate_weight |-> NoPrice]

Init ==
    /\ groups \in InitGroups
    /\ person_constraints \in InitConstraints
    /\ \A i \in 1..Len(person_constraints) :
          person_constraints[i].person \in AllMembers(groups)
    /\ weights = DefaultWeights
    /\ hist_weights = DefaultWeights
    /\ ledger = << >>
    /\ status = "idle"
    /\ run = NoRun
    /\ day = 0
    /\ gidx = 0
    /\ day_schedule = << >>
    /\ schedule = << >>
    /\ last_scheduled = << >>
    /\ assignments_count = << >>
    /\ result = NoResult
    /\ fallbacks = {}
    /\ runs = 0
    /\ prev = NoPrev
    /\ legacy_groups = groups
    /\ legacy_schedule = << >>
    /\ legacy_call = [year |-> 0, month |-> 0, result |-> NoResult]
    /\ classified = NoClassification
    /\ call = NoCall
    /\ recorded = 0
    /\ db_groups = {groups[i].id : i \in 1..Len(groups)}


\* ---------------------------------------------------------------- inputs

\* Holiday(start_date=date(2024, 3, 29), end_date=date(2024, 4, 1)): the
\* 4-day Easter holiday of the tests.
Easter == [start_date |-> ToOrdinal(2024, 3, 29),
           end_date |-> ToOrdinal(2024, 4, 1)]

\* The (year, month, holidays) arguments of the calls.
RunInputs ==
    {[year |-> 2023, month |-> 2, holidays |-> << >>],
     [year |-> 2024, month |-> 3, holidays |-> <<Easter>>]}

\* --------------------------------------------------------------- actions

ErrorResult(exc, why, who, required, actual) ==
    [kind |-> "error", entries |-> << >>, exc |-> exc, why |-> why,
     who |-> who, required |-> required, actual |-> actual]

\* generate_monthly_schedule: the three checks made before any day is
\* scheduled; NoResult when all pass.
PreconditionError(gs) ==
    IF gs = << >>
    THEN ErrorResult("InvalidScheduleError", "no_groups", << >>, 0, 0)
    ELSE IF EmptyGroups(gs) # << >>
    THEN ErrorResult("InsufficientGroupMembersError", "empty_groups",
                     [i \in 1..Len(EmptyGroups(gs)) |-> EmptyGroups(gs)[i].id],
                     0, 0)
    ELSE IF FirstSmallGroup(gs) # 0
    THEN ErrorResult("InsufficientGroupMembersError", "too_few_members",
                     <<gs[FirstSmallGroup(gs)].id>>, MinGroupMembers,
                     Len(gs[FirstSmallGroup(gs)].members))
    ELSE NoResult

\* A call begins: what the histories record.
BeginCall(inp) ==
    /\ status # "running"
    /\ runs < MaxRuns
    /\ runs' = runs + 1
    /\ prev' = IF status = "idle" THEN prev
               ELSE [valid |-> TRUE, groups |-> groups,
                     person_constraints |-> person_constraints,
                     year |-> run.year, month |-> run.month,
                     holidays |-> run.holidays, result |-> result]
    /\ run' = [year |-> inp.year, month |-> inp.month,
               holidays |-> inp.holidays,
               num_days |-> DaysInMonth(inp.year, inp.month),
               ledger0 |-> Len(ledger)]
    /\ fallbacks' = {}

\* generate_monthly_schedule, a call that a precondition check ends.
GenerateRejected(inp) ==
    /\ BeginCall(inp)
    /\ PreconditionError(groups).kind = "error"
    /\ status' = "raised"
    /\ result' = PreconditionError(groups)
    /\ day' = 0
    /\ gidx' = 0
    /\ day_schedule' = << >>
    /\ schedule' = << >>
    /\ last_scheduled' = << >>
    /\ assignments_count' = << >>
    /\ UNCHANGED <<registry, ledger, legacy, classified, calls>>

\* generate_monthly_schedule, up to the first iteration of the loops.
GenerateStart(inp) ==
    /\ BeginCall(inp)
    /\ PreconditionError(groups).kind = "none"
    /\ status' = "running"
    /\ result' = NoResult
    /\ day' = 1
    /\ gidx' = 1
    /\ day_schedule' = << >>
    /\ schedule' = << >>
    /\ last_scheduled' = FreshLastScheduled(last_scheduled)
    /\ assignments_count' = FreshAssignmentsCount(assignments_count)
    /\ UNCHANGED <<registry, ledger, legacy, classified, calls>>

\* generate_monthly_schedule: one iteration of the inner loop, the pick for
\* one group on one day and its record_assignment (which commits).  Each
\* local is bound to its value once (\E over a singleton).
ScheduleStep ==
    /\ status = "running"
    /\ day \in DayRange(run.num_days)
    /\ \E g \in {groups[gidx]},
          date_obj \in {ToOrdinal(run.year, run.month, day)},
          date_str \in {StrfTime(run.year, run.month, day)} :
       \E eligible \in {EligibleMembers(g.members, last_scheduled,
                                        assignments_count, person_constraints,
                                        run.year, run.month, day)} :
       \E chosen_person \in {select_person(Candidates(g.members, eligible),
                                           last_scheduled, assignments_count,
                                           person_constraints)},
          day_type \in {get_day_type(date_obj, Truthy(run.holidays))} :
       \E assignment \in
              {[person |-> chosen_person, group_id |-> g.id,
                assignment_date |-> date_obj, day_type |-> day_type,
                weight |-> calculate_weight(weights, date_obj, day_type)]},
          filled \in {DictSet(day_schedule, g.id, chosen_person)} :
          /\ last_scheduled' = DictSet(last_scheduled, chosen_person, date_str)
          /\ assignments_count' =
                DictSet(assignments_count, chosen_person,
                        CountOf(assignments_count, chosen_person) + 1)
          /\ ledger' = record_assignment(ledger, hist_weights, assignment)
          /\ fallbacks' = IF eligible = << >>
                          THEN fallbacks \cup {<<date_str, g.id>>}
                          ELSE fallbacks
          /\ IF gidx < Len(groups)
             THEN /\ gidx' = gidx + 1
                  /\ day_schedule' = filled
                  /\ UNCHANGED <<day, schedule>>
             ELSE /\ gidx' = 1
                  /\ day' = day + 1
                  /\ day_schedule' = << >>
                  /\ schedule' = DictSet(schedule, date_str, filled)
    /\ UNCHANGED <<registry, status, run, result, runs, prev, legacy, classified, calls>>

\* generate_monthly_schedule: after the loops, every min_days is met and the
\* Schedule is returned.
FinishReturn ==
    /\ status = "running"
    /\ day \notin DayRange(run.num_days)
    /\ FirstUnmet(person_constraints, assignments_count) = 0
    /\ status' = "returned"
    /\ result' = [NoResult EXCEPT !.kind = "schedule", !.entries = schedule]
    /\ UNCHANGED <<registry, ledger, run, day, gidx, day_schedule, schedule,
                   last_scheduled, assignments_count, fallbacks, runs, prev,
                   legacy, classified, calls>>

\* generate_monthly_schedule: after the loops, the first unmet min_days
\* raises InvalidScheduleError.
FinishRaise ==
    /\ status = "running"
    /\ day \notin DayRange(run.num_days)
    /\ FirstUnmet(person_constraints, assignments_count) # 0
    /\ LET c == person_constraints[FirstUnmet(person_constraints,
                                              assignments_count)]
       IN result' = ErrorResult("InvalidScheduleError", "min_days_unmet",
                                <<c.person>>, c.min_days,
                                CountOf(assignments_count, c.person))
    /\ status' = "raised"
    /\ UNCHANGED <<registry, ledger, run, day, gidx, day_schedule, schedule,
                   last_scheduled, assignments_count, fallbacks, runs, prev,
                   legacy, classified, calls>>

\* Scheduler.generate_monthly_schedule(year, month) of the legacy service,
\* which keeps everything in memory: the whole call.  The two services share
\* no state, so the order of their calls is immaterial; a legacy call is
\* taken between two calls of SchedulerService.
LegacyGenerate(inp) ==
    /\ status # "running"
    /\ IF LegacyPreconditionError(legacy_groups).kind = "error"
       THEN /\ legacy_call' = [year |-> inp.year, month |-> inp.month,
                               result |-> LegacyPreconditionError(legacy_groups)]
            /\ UNCHANGED legacy_schedule
       ELSE LET sched == LegacyLoops(legacy_groups, inp.year, inp.month,
                                     LegacyLocals)
            IN /\ legacy_schedule' = sched
               /\ legacy_call' =
                     [year |-> inp.year, month |-> inp.month,
                      result |-> [NoResult EXCEPT !.kind = "schedule",
                                                  !.entries = sched]]
    /\ UNCHANGED <<registry, ledger, status, run, day, gidx, day_schedule,
                   schedule, last_scheduled, assignments_count, result,
                   fallbacks, runs, prev, legacy_groups, classified,
                   calls>>

Next ==
    \/ \E inp \in RunInputs : GenerateRejected(inp)
    \/ \E inp \in RunInputs : GenerateStart(inp)
    \/ ScheduleStep
    \/ FinishReturn
    \/ FinishRaise

Spec == Init /\ [][Next]_vars

\* The registries with one group at most, or with no constraints.
InitLive == Init /\ (Len(groups) <= 1 \/ person_constraints = << >>)

\* A call is one sequential Python function: once started, its next loop
\* iteration and its final validation are eventually executed.
SpecLive ==
    /\ InitLive
    /\ [][Next]_vars
    /\ WF_vars(ScheduleStep)
    /\ WF_vars(FinishReturn)
    /\ WF_vars(FinishRaise)

\* ------------------------------------------------- the classifiers alone

\* Holiday(start_date=date(2024, 3, 30)): a single day inside Easter.
HolySaturday == [start_date |-> ToOrdinal(2024, 3, 30), end_date |-> NoneVal]

\* Holiday(start_date=date(2024, 3, 28), end_date=date(2024, 3, 29)): two
\* days, below _min_long_weekend_days.
TwoDayBreak == [start_date |-> ToOrdinal(2024, 3, 28),
                end_date |-> ToOrdinal(2024, 3, 29)]

\* The holiday lists a date is classified against.
HolidayLists ==
    {<< >>, <<Easter>>, <<TwoDayBreak>>, <<Easter, HolySaturday>>,
     <<HolySaturday, Easter>>}

\* The dates classified: Monday 25 March 2024 to Wednesday 3 April 2024.
ClassifiedDates == ToOrdinal(2024, 3, 25)..ToOrdinal(2024, 4, 3)

InitClassify ==
    /\ groups = << >>
    /\ person_constraints = << >>
    /\ weights = DefaultWeights
    /\ hist_weights = DefaultWeights
    /\ ledger = << >>
    /\ status = "idle"
    /\ run = NoRun
    /\ day = 0
    /\ gidx = 0
    /\ day_schedule = << >>
    /\ schedule = << >>
    /\ last_scheduled = << >>
    /\ assignments_count = << >>
    /\ result = NoResult
    /\ fallbacks = {}
    /\ runs = 0
    /\ prev = NoPrev
    /\ legacy_groups = << >>
    /\ legacy_schedule = << >>
    /\ legacy_call = [year |-> 0, month |-> 0, result |-> NoResult]
    /\ call = NoCall
    /\ recorded = 0
    /\ db_groups = {}
    /\ \E d \in ClassifiedDates, hs \in HolidayLists :
          classified = [NoClassification EXCEPT !.target_date = d,
                                                !.holidays = hs]

\* day_weight_service.get_day_type(target_date, holidays), the call as
\* generate_monthly_schedule makes it, with the list in second position.
CallGetDayType ==
    /\ classified.get_day_type = NoDayType
    /\ classified' =
          [classified EXCEPT !.get_day_type =
              get_day_type(classified.target_date,
                           Truthy(classified.holidays))]
    /\ UNCHANGED <<registry, ledger, status, run, day, gidx, day_schedule,
                   schedule, last_scheduled, assignments_count, result,
                   fallbacks, runs, prev, legacy, calls>>

\* LongWeekendService.analyze_period(target_date, target_date, holidays)
\* [target_date]
CallAnalyzePeriod ==
    /\ classified.analyze_period = NoDayType
    /\ classified' =
          [classified EXCEPT !.analyze_period =
              analyze_period_day(classified.target_date,
                                 classified.holidays)]
    /\ UNCHANGED <<registry, ledger, status, run, day, gidx, day_schedule,
                   schedule, last_scheduled, assignments_count, result,
                   fallbacks, runs, prev, legacy, calls>>

\* DayWeightService().calculate_weight(target_date, holidays), the call of
\* test_weight_calculation.
CallCalculateWeight ==
    /\ classified.calculate_weight = NoPrice
    /\ classified' =
          [classified EXCEPT !.calculate_weight =
              calculate_weight_of_list(DefaultWeights, classified.target_date,
                                       classified.holidays)]
    /\ UNCHANGED <<registry, ledger, engine, legacy, calls>>

NextClassify ==
    \/ CallGetDayType
    \/ CallAnalyzePeriod
    \/ CallCalculateWeight

SpecClassify == InitClassify /\ [][NextClassify]_vars

\* --------------------------------------- the classifiers, called repeatedly

\* The classifiers and the long-weekend queries are called any number of
\* times on the date and the holiday list of the state.  classified keeps the
\* first answer of each classifier, call the last call and its answer.

\* day_weight_service.get_day_type(target_date, holidays)
GetDayTypeCall ==
    /\ \E returned \in {get_day_type(classified.target_date,
                                      Truthy(classified.holidays))} :
          /\ call' = [op |-> "get_day_type", returned |-> returned]
          /\ classified' = IF classified.get_day_type = NoDayType
                           THEN [classified EXCEPT !.get_day_type = returned]
                           ELSE classified
    /\ UNCHANGED <<registry, ledger, engine, legacy, recorded>>

\* analyze_period(target_date, target_date, holidays).get(target_date)
AnalyzePeriodCall ==
    /\ \E returned \in {analyze_period_day(classified.target_date,
                                            classified.holidays)} :
          /\ call' = [op |-> "analyze_period", returned |-> returned]
          /\ classified' = IF classified.analyze_period = NoDayType
                           THEN [classified EXCEPT !.analyze_period = returned]
                           ELSE classified
    /\ UNCHANGED <<registry, ledger, engine, legacy, recorded>>

\* long_weekend_service.get_middle_days(start_date, end_date)
GetMiddleDaysCall(start_date, end_date) ==
    /\ call' = [op |-> "get_middle_days", start_date |-> start_date,
                end_date |-> end_date,
                returned |-> get_middle_days(start_date, end_date)]
    /\ UNCHANGED <<registry, ledger, engine, legacy, classified, recorded>>

\* long_weekend_service.is_middle_day(target_date, holidays)
IsMiddleDayCall ==
    /\ call' = [op |-> "is_middle_day",
                returned |-> is_middle_day(classified.target_date,
                                           classified.holidays)]
    /\ UNCHANGED <<registry, ledger, engine, legacy, classified, recorded>>

NextLongWeekend ==
    \/ GetDayTypeCall
    \/ AnalyzePeriodCall
    \/ \E start_date, end_date \in ClassifiedDates :
          GetMiddleDaysCall(start_date, end_date)
    \/ IsMiddleDayCall

SpecLongWeekend == InitClassify /\ [][NextLongWeekend]_vars

\* ------------------------------------------------ the weight model alone

\* The weights passed to set_weight: -1.0, 0, 0.5 and 3.0.
WeightValues == {0 - 10, 0, 5, 30}

InitWeights == Init /\ groups = << >>

\* day_weight_service.set_weight(day_type, weight)
SetWeight(day_type, weight) ==
    /\ weights' = set_weight(weights, day_type, weight).weights
    /\ call' = [op |-> "set_weight", day_type |-> day_type, weight |-> weight,
                exc |-> set_weight(weights, day_type, weight).exc,
                before |-> weights]
    /\ UNCHANGED <<groups, person_constraints, hist_weights, ledger, engine,
                   legacy, classified, recorded, db_groups>>

\* day_weight_service.calculate_weight(target_date, day_type), day_type a
\* DayType or None.
CalculateWeight(target_date, day_type) ==
    /\ call' = [op |-> "calculate_weight", target_date |-> target_date,
                day_type |-> day_type,
                returned |-> calculate_weight(weights, target_date, day_type)]
    /\ UNCHANGED <<registry, ledger, engine, legacy, classified, recorded>>

NextWeights ==
    \/ \E t \in DayTypes, w \in WeightValues : SetWeight(t, w)
    \/ \E d \in ClassifiedDates, t \in DayTypes \cup {NoDayType} :
          CalculateWeight(d, t)

SpecWeights == InitWeights /\ [][NextWeights]_vars

\* ---------------------------------------------------- the ledger alone

\* AssignmentHistory(person, group_id, assignment_date, day_type, weight)
Assignment(person, group_id, d, day_type, weight) ==
    [person |-> person, group_id |-> group_id,
     assignment_date |-> ToOrdinal(2024, 1, d), day_type |-> day_type,
     weight |-> weight]

\* The assignments recorded directly: those of test_get_fairness_metrics
\* (scores 3.5 and 1.0), a friday in another group, a long_weekend_middle,
\* and a regular day that comes with a weight of 3.0.
RecordInputs ==
    {Assignment("A", "g1", 1, "holiday", 20),
     Assignment("A", "g1", 2, "weekend", 15),
     Assignment("B", "g1", 3, "regular", 10),
     Assignment("A", "g2", 5, "friday", 12),
     Assignment("B", "g1", 6, "long_weekend_middle", 25),
     Assignment("A", "g1", 4, "regular", 30)}

InitLedger == Init /\ groups = << >>

\* assignment_history.record_assignment(a), called directly; a generate run
\* is one synchronous call, so none is under way.
RecordAssignment(a) ==
    /\ status # "running"
    /\ recorded < MaxRecords
    /\ ledger' = record_assignment(ledger, hist_weights, a)
    /\ recorded' = recorded + 1
    /\ call' = [op |-> "record_assignment", assignment |-> a,
                returned |-> NewRow(ledger, hist_weights, a),
                before |-> ledger]
    /\ UNCHANGED <<registry, engine, legacy, classified>>

\* assignment_history.get_person_stats(person, group_id)
GetPersonStats(person, group_id) ==
    /\ status # "running"
    /\ call' = [op |-> "get_person_stats", person |-> person,
                group_id |-> group_id,
                returned |-> get_person_stats(ledger, person, group_id)]
    /\ UNCHANGED <<registry, ledger, engine, legacy, classified, recorded>>

\* assignment_history.get_fairness_metrics(group_id)
GetFairnessMetrics(group_id) ==
    /\ status # "running"
    /\ call' = [op |-> "get_fairness_metrics", group_id |-> group_id,
                returned |-> get_fairness_metrics(ledger, group_id)]
    /\ UNCHANGED <<registry, ledger, engine, legacy, classified, recorded>>

NextLedger ==
    \/ \E a \in RecordInputs : RecordAssignment(a)
    \/ \E p \in {"A", "B"}, g \in {"g1", "g2"} : GetPersonStats(p, g)
    \/ \E g \in {"g1", "g2"} : GetFairnessMetrics(g)

SpecLedger == InitLedger /\ [][NextLedger]_vars

\* ------------------------------- direct records and generate runs mixed

\* The direct records of one pair.
AppendInputs == {a \in RecordInputs : a.person = "A" /\ a.group_id = "g1"}

\* The run that is mixed with them.
FebruaryRun == [year |-> 2023, month |-> 2, holidays |-> << >>]

\* One group [A, B] without constraints: no call is rejected or raises.
InitAppend ==
    /\ Init
    /\ groups = <<GroupEntry(1, <<"A", "B">>)>>
    /\ person_constraints = << >>

NextAppend ==
    \/ \E a \in AppendInputs : RecordAssignment(a)
    \/ GenerateStart(FebruaryRun)
    \/ ScheduleStep
    \/ FinishReturn

SpecAppend == InitAppend /\ [][NextAppend]_vars

\* ------------------------------- record_assignment of two sessions, by step

\* Two sessions call record_assignment for one pair.  The query of the
\* latest record and the insert with its commit are separate statements
\* against the database, so they are separate steps here, and the steps of
\* the two sessions interleave in any order.  call holds what each session
\* has read and not yet inserted.
Sessions == {1, 2}

IdleSession == [phase |-> "idle"]

SessionsOf(c) ==
    IF c.op = "record_assignment_steps" THEN c.sessions
    ELSE [w \in Sessions |-> IdleSession]

\* record_assignment, lines 30-57: the row built from the counters read.
InsertedRow(read, hw) ==
    LET a == read.assignment
        weight == calculate_weight(hw, a.assignment_date, a.day_type)
    IN [person |-> a.person,
        group_id |-> a.group_id,
        date |-> a.assignment_date,
        day_type |-> a.day_type,
        weight |-> weight,
        cumulative_regular_days |->
            IF a.day_type = "regular"
            THEN read.cumulative_regular_days + 1
            ELSE read.cumulative_regular_days,
        cumulative_weighted_days |-> read.cumulative_weighted_days + weight,
        cumulative_total_days |-> read.cumulative_total_days + 1]

\* record_assignment, lines 20-33: session w queries the latest record of
\* the pair.
ReadLatest(w, a) ==
    /\ SessionsOf(call)[w].phase = "idle"
    /\ recorded + Cardinality({v \in Sessions :
                                  SessionsOf(call)[v].phase = "read"})
          < MaxRecords
    /\ \E li \in {LatestIndex(ledger, a.person, a.group_id)} :
          call' = [op |-> "record_assignment_steps",
                   sessions |->
                     [SessionsOf(call) EXCEPT ![w] =
                        [phase |-> "read",
                         assignment |-> a,
                         cumulative_regular_days |->
                            IF li = 0 THEN 0
                            ELSE ledger[li].cumulative_regular_days,
                         cumulative_weighted_days |->
                            IF li = 0 THEN 0
                            ELSE ledger[li].cumulative_weighted_days,
                         cumulative_total_days |->
                            IF li = 0 THEN 0
                            ELSE ledger[li].cumulative_total_days]]]
    /\ UNCHANGED <<registry, ledger, engine, legacy, classified, recorded>>

\* record_assignment, lines 35-61: session w builds the row from what it
\* read, adds it and commits.
InsertRecord(w) ==
    /\ SessionsOf(call)[w].phase = "read"
    /\ ledger' = Append(ledger, InsertedRow(SessionsOf(call)[w], hist_weights))
    /\ recorded' = recorded + 1
    /\ call' = [op |-> "record_assignment_steps",
                sessions |-> [SessionsOf(call) EXCEPT ![w] = IdleSession]]
    /\ UNCHANGED <<registry, engine, legacy, classified>>

NextInterleave ==
    \/ \E w \in Sessions, a \in AppendInputs : ReadLatest(w, a)
    \/ \E w \in Sessions : InsertRecord(w)

SpecInterleave == InitLedger /\ [][NextInterleave]_vars

\* ------------------------------------------------- the Holiday model alone

InitHoliday == Init /\ groups = << >>

\* Holiday(start_date=start_date, end_date=end_date), end_date maybe None.
NewHoliday(start_date, end_date) ==
    /\ call' = [op |-> "Holiday", start_date |-> start_date,
                end_date |-> end_date,
                exc |-> Holiday(start_date, end_date).exc,
                holiday |-> Holiday(start_date, end_date).holiday]
    /\ UNCHANGED <<registry, ledger, engine, legacy, classified, recorded>>

\* holiday.get_dates() on the Holiday just built.
GetDates ==
    /\ call.op = "Holiday"
    /\ call.exc = ""
    /\ call' = [op |-> "get_dates", holiday |-> call.holiday,
                returned |-> get_dates(call.holiday)]
    /\ UNCHANGED <<registry, ledger, engine, legacy, classified, recorded>>

NextHoliday ==
    \/ \E d \in ClassifiedDates, e \in ClassifiedDates \cup {NoneVal} :
          NewHoliday(d, e)
    \/ GetDates

SpecHoliday == InitHoliday /\ [][NextHoliday]_vars

\* ---------------------------------------------------- the registry alone

\* The names passed to add_person_to_group: two persons, the empty name and
\* a name of one blank.
AddedNames == {"A", "B", "", " "}

\* The (min_days, max_days) passed: none, one of the two, both, and a
\* min_days above the max_days.
AddedLimits ==
    {<<NoneVal, NoneVal>>, <<NoneVal, 1>>, <<2, NoneVal>>, <<2, 3>>, <<2, 1>>}

\* A service loaded from a database with at most one group.
InitRegistry == Init /\ Len(groups) <= 1

\* scheduler.add_person_to_group(person, group_id, min_days, max_days)
AddPersonToGroup(person, group_id, min_days, max_days) ==
    /\ status # "running"
    /\ LET out == add_person_to_group(groups, person_constraints, person,
                                      group_id, min_days, max_days)
       IN /\ groups' = out.groups
          /\ person_constraints' = out.person_constraints
          /\ call' = [op |-> "add_person_to_group", person |-> person,
                      group_id |-> group_id, min_days |-> min_days,
                      max_days |-> max_days, exc |-> out.exc,
                      before |-> [groups |-> groups,
                                  person_constraints |-> person_constraints]]
    /\ UNCHANGED <<weights, hist_weights, ledger, engine, legacy, classified,
                   recorded, db_groups>>

NextRegistry ==
    \E person \in AddedNames, i \in 1..Len(GroupIds), l \in AddedLimits :
        AddPersonToGroup(person, GroupIds[i], l[1], l[2])

SpecRegistry == InitRegistry /\ [][NextRegistry]_vars

\* ------------------------------------------- a reader during the run

\* One group of two, alone or with a second group, and no constraints.
InitReader ==
    /\ Init
    /\ person_constraints = << >>
    /\ groups \in {<<GroupEntry(1, <<"A", "B">>)>>,
                   <<GroupEntry(1, <<"A", "B">>), GroupEntry(2, <<"B", "C">>)>>}

\* get_schedule(year, month) on another session of the same database, at
\* any moment, also between two iterations of a running
\* generate_monthly_schedule: it sees the rows committed so far.  Recorded
\* with the call: whether a run for that month was in flight, the position of
\* its loops, and whether the month had no rows when that run started.
GetSchedule(inp) ==
    /\ call' = [op |-> "get_schedule", year |-> inp.year, month |-> inp.month,
                in_flight |-> /\ status = "running"
                              /\ run.year = inp.year
                              /\ run.month = inp.month,
                day |-> day, gidx |-> gidx,
                fresh |-> ScheduleKeys(SubSeq(ledger, 1, run.ledger0),
                                       inp.year, inp.month) = {},
                dates |-> ScheduleKeys(ledger, inp.year, inp.month)]
    /\ UNCHANGED <<registry, ledger, engine, legacy, classified, recorded>>

NextReader ==
    \/ \E inp \in RunInputs : GenerateStart(inp)
    \/ ScheduleStep
    \/ FinishReturn
    \/ \E inp \in RunInputs : GetSchedule(inp)

SpecReader == InitReader /\ [][NextReader]_vars

\* ------------------------------------- runs with two constrained persons

\* Registries in which A and B both carry constraints: one group of three,
\* alone or with a second group of two or three.
InitCatchUp ==
    /\ groups \in {<<GroupEntry(1, PersonOrder)>>}
                  \cup {<<GroupEntry(1, PersonOrder), GroupEntry(2, m2)>> :
                           m2 \in {m \in MemberLists :
                                      Len(m) >= MinGroupMembers}}
    /\ person_constraints \in
          {ConstraintDict({"A", "B"}, f) : f \in [{"A", "B"} -> ConstraintChoices]}
    /\ weights = DefaultWeights
    /\ hist_weights = DefaultWeights
    /\ ledger = << >>
    /\ status = "idle"
    /\ run = NoRun
    /\ day = 0
    /\ gidx = 0
    /\ day_schedule = << >>
    /\ schedule = << >>
    /\ last_scheduled = << >>
    /\ assignments_count = << >>
    /\ result = NoResult
    /\ fallbacks = {}
    /\ runs = 0
    /\ prev = NoPrev
    /\ legacy_groups = groups
    /\ legacy_schedule = << >>
    /\ legacy_call = [year |-> 0, month |-> 0, result |-> NoResult]
    /\ classified = NoClassification
    /\ call = NoCall
    /\ recorded = 0
    /\ db_groups = {groups[i].id : i \in 1..Len(groups)}

NextCatchUp ==
    \/ \E inp \in RunInputs : GenerateStart(inp)
    \/ ScheduleStep
    \/ FinishReturn
    \/ FinishRaise

SpecCatchUp == InitCatchUp /\ [][NextCatchUp]_vars

\* ------------------------------------------- the registries of both services

\* The same requests are made to SchedulerService and to the legacy
\* Scheduler, which starts with the same groups.

\* The names and the (min_days, max_days) of the people added.
MemberNames == {"A", "B"}

MemberLimits == {<<NoneVal, NoneVal>>, <<2, 3>>}

\* PersonAssignment(name=..., min_days=..., max_days=...)
PersonAssignment(name, min_days, max_days) ==
    [name |-> name, min_days |-> min_days, max_days |-> max_days]

\* The group_ids of the bulk_add_groups requests: one id, and an id twice.
BulkGroupRequests == {<<GroupIds[1]>>, <<GroupIds[2], GroupIds[2]>>}

\* The assignments of the bulk_add_people_to_groups requests, in the order
\* of assignments.items(): a name twice for one group, and two groups.
BulkPeopleRequests ==
    {<<[group_id |-> GroupIds[1],
        people |-> <<PersonAssignment("A", NoneVal, NoneVal),
                     PersonAssignment("A", 2, 3)>>]>>,
     <<[group_id |-> GroupIds[1],
        people |-> <<PersonAssignment("B", 2, 3)>>],
       [group_id |-> GroupIds[2],
        people |-> <<PersonAssignment("A", NoneVal, NoneVal),
                     PersonAssignment("B", NoneVal, NoneVal)>>]>>}

\* Services loaded with at most one group, of A and B, without constraints.
InitMembers ==
    /\ Init
    /\ Len(groups) <= 1
    /\ person_constraints = << >>
    /\ AllMembers(groups) \subseteq MemberNames

\* The last call, in call: its name, the person and the group a removal or a
\* deletion was asked for, and whether each service returned True (for a call
\* that returns nothing: did not raise).
NoGroup == ""

MembersUnchanged ==
    UNCHANGED <<weights, hist_weights, ledger, engine, legacy_schedule,
                legacy_call, classified, recorded>>

\* add_person_to_group(person, group_id, min_days, max_days), and the
\* legacy add_person_to_group(person, group_id)
AddPerson(person, group_id, min_days, max_days) ==
    /\ status # "running"
    /\ LET out == add_person_to_group(groups, person_constraints, person,
                                      group_id, min_days, max_days)
       IN /\ groups' = out.groups
          /\ person_constraints' = out.person_constraints
          /\ call' = [op |-> "add_person_to_group", person |-> NoPerson,
                      group_id |-> NoGroup, returned |-> out.exc = "",
                      legacy_returned |-> TRUE]
    /\ legacy_groups' = legacy_add_person_to_group(legacy_groups, person,
                                                   group_id)
    /\ UNCHANGED db_groups
    /\ MembersUnchanged

\* bulk_add_groups(group_ids) of both services
BulkAddGroupsCall(group_ids) ==
    /\ status # "running"
    /\ LET out == bulk_add_groups(groups, db_groups, group_ids)
       IN /\ groups' = out.groups
          /\ db_groups' = out.db_groups
          /\ call' = [op |-> "bulk_add_groups", person |-> NoPerson,
                      group_id |-> NoGroup,
                      returned |-> out.returned, legacy_returned |-> TRUE]
    /\ legacy_groups' = BulkAddGroups(legacy_groups, group_ids)
    /\ UNCHANGED person_constraints
    /\ MembersUnchanged

\* bulk_add_people_to_groups(assignments) of both services
BulkAddPeopleCall(assignments) ==
    /\ status # "running"
    /\ LET out == bulk_add_people_to_groups(groups, person_constraints,
                                            db_groups, assignments)
       IN /\ groups' = out.groups
          /\ person_constraints' = out.person_constraints
          /\ call' = [op |-> "bulk_add_people_to_groups",
                      person |-> NoPerson, group_id |-> NoGroup,
                      returned |-> out.exc = "", legacy_returned |-> TRUE]
    /\ legacy_groups' = legacy_bulk_add_people_to_groups(legacy_groups,
                                                         assignments)
    /\ UNCHANGED db_groups
    /\ MembersUnchanged

\* remove_person_from_group(person, group_id) of both services
RemovePerson(person, group_id) ==
    /\ status # "running"
    /\ LET out == remove_person_from_group(groups, person_constraints, person,
                                           group_id)
           leg == legacy_remove_person_from_group(legacy_groups, person,
                                                  group_id)
       IN /\ groups' = out.groups
          /\ person_constraints' = out.person_constraints
          /\ legacy_groups' = leg.groups
          /\ call' = [op |-> "remove_person_from_group", person |-> person,
                      group_id |-> group_id, returned |-> out.returned,
                      legacy_returned |-> leg.returned]
    /\ UNCHANGED db_groups
    /\ MembersUnchanged

\* delete_group(group_id) of both services
DeleteGroup(group_id) ==
    /\ status # "running"
    /\ LET out == delete_group(groups, person_constraints, group_id)
           leg == legacy_delete_group(legacy_groups, group_id)
       IN /\ groups' = out.groups
          /\ person_constraints' = out.person_constraints
          /\ legacy_groups' = leg.groups
          /\ call' = [op |-> "delete_group", person |-> NoPerson,
                      group_id |-> group_id, returned |-> out.returned,
                      legacy_returned |-> leg.returned]
    /\ UNCHANGED db_groups
    /\ MembersUnchanged

NextMembers ==
    \/ \E person \in MemberNames, i \in 1..Len(GroupIds),
          l \in MemberLimits :
          AddPerson(person, GroupIds[i], l[1], l[2])
    \/ \E group_ids \in BulkGroupRequests : BulkAddGroupsCall(group_ids)
    \/ \E assignments \in BulkPeopleRequests : BulkAddPeopleCall(assignments)
    \/ \E person \in MemberNames, i \in 1..Len(GroupIds) :
          RemovePerson(person, GroupIds[i])
    \/ \E i \in 1..Len(GroupIds) : DeleteGroup(GroupIds[i])

SpecMembers == InitMembers /\ [][NextMembers]_vars

\* ------------------------------------- a month generated again, then read

\* The month is generated, the registry may change, the month is generated
\* again, and get_schedule reads it back after a run has returned.
\*
\* get_schedule orders the rows by date only, so the rows of one date come
\* in an order the database chooses, and for a (date, group) with several
\* rows any of them can be the last to be written into the dict.  The call
\* is recorded by the pairs of the returned Schedule and by one of its
\* entries, for any row that can be the one that stays.
GetScheduleReturned ==
    /\ status = "returned"
    /\ \E first \in {ToOrdinal(run.year, run.month, 1)},
          keys \in {ScheduleEntryKeys(ledger, run.year, run.month)} :
       \E i \in ScheduleRows(ledger, run.year, run.month) :
          call' = [op |-> "get_schedule", year |-> run.year,
                   month |-> run.month, runs |-> runs,
                   keys |-> keys,
                   date_str |-> StrfTime(run.year, run.month,
                                         ledger[i].date - first + 1),
                   group_id |-> ledger[i].group_id,
                   person |-> ledger[i].person]
    /\ UNCHANGED <<registry, ledger, engine, legacy, classified, recorded>>

NextRegenerate ==
    \/ GenerateStart(FebruaryRun)
    \/ ScheduleStep
    \/ FinishReturn
    \/ AddPerson("C", GroupIds[1], NoneVal, NoneVal)
    \/ DeleteGroup(GroupIds[2])
    \/ GetScheduleReturned

SpecRegenerate == InitReader /\ [][NextRegenerate]_vars

\* The two services side by side, on registries without constraints (the
\* legacy service has none).
InitCompare == Init /\ person_constraints = << >>

\* FinishRaise needs a constraint, so it is not among the steps.
NextCompare ==
    \/ \E inp \in RunInputs : GenerateRejected(inp)
    \/ \E inp \in RunInputs : GenerateStart(inp)
    \/ ScheduleStep
    \/ FinishReturn
    \/ \E inp \in RunInputs : LegacyGenerate(inp)

SpecCompare == InitCompare /\ [][NextCompare]_vars


\* ---------------------------------------------- properties of the runs

\* The "%Y-%m-%d" strings of the calendar days of the month of the call.
MonthDates == {StrfTime(run.year, run.month, d) :
                  d \in 1..DaysInMonth(run.year, run.month)}

GroupIdSet == {groups[i].id : i \in 1..Len(groups)}

MembersOf(i) == {groups[i].members[k] : k \in 1..Len(groups[i].members)}

\* The loops of the call are over: it returned, or raised the unmet minimum.
RunEnded ==
    \/ status = "returned"
    \/ status = "raised" /\ result.why = "min_days_unmet"

\* The ids of the ledger rows the current call has appended.
OwnRows == (run.ledger0 + 1)..Len(ledger)

\* C1: a call that returns gives a schedule with one entry for each calendar
\* day of the month, and each entry maps every registered group to one person,
\* a member of that group.
C1_ScheduleComplete ==
    status = "returned" =>
        /\ result.kind = "schedule"
        /\ DOMAIN result.entries = MonthDates
        /\ \A ds \in DOMAIN result.entries :
              /\ DOMAIN result.entries[ds] = GroupIdSet
              /\ \A i \in 1..Len(groups) :
                    result.entries[ds][groups[i].id] \in MembersOf(i)

C1_Witness ==
    /\ status = "returned"
    /\ Len(groups) = 2
    /\ run.month = 2
    /\ Cardinality(DOMAIN result.entries) = 28

\* C2: in a returned schedule no person is assigned to the same group on two
\* consecutive dates, except on a (day, group) whose eligibility set was empty
\* (the fallback), in every registry.
C2_NoConsecutiveUnlessFallback ==
    status = "returned" =>
        \A d \in 2..DaysInMonth(run.year, run.month) :
            \A i \in 1..Len(groups) :
                LET today == StrfTime(run.year, run.month, d)
                    before == StrfTime(run.year, run.month, d - 1)
                IN result.entries[today][groups[i].id]
                       = result.entries[before][groups[i].id]
                   => <<today, groups[i].id>> \in fallbacks

\* C3: at the end of a run every person with a max_days has at most max_days
\* assignments.
C3_MaxDaysRespected ==
    RunEnded =>
        \A i \in 1..Len(person_constraints) :
            person_constraints[i].max_days # NoneVal =>
                CountOf(assignments_count, person_constraints[i].person)
                    <= person_constraints[i].max_days

\* C4: a run that returns leaves no person below their min_days, and a run
\* that some unmet min_days ends raises InvalidScheduleError naming such a
\* person with the required and the actual count.
C4_MinDaysMetOrRaised ==
    /\ status = "returned" =>
          \A i \in 1..Len(person_constraints) :
              person_constraints[i].min_days # NoneVal =>
                  CountOf(assignments_count, person_constraints[i].person)
                      >= person_constraints[i].min_days
    /\ (status = "raised" /\ result.why = "min_days_unmet") =>
          /\ result.exc = "InvalidScheduleError"
          /\ \E i \in 1..Len(person_constraints) :
                /\ result.who = <<person_constraints[i].person>>
                /\ person_constraints[i].min_days # NoneVal
                /\ result.required = person_constraints[i].min_days
                /\ result.actual =
                      CountOf(assignments_count, person_constraints[i].person)
                /\ result.actual < result.required

C4_Witness ==
    /\ status = "raised"
    /\ result.why = "min_days_unmet"
    /\ result.required = 17
    /\ result.actual = 16

\* The registry fails one of the three precondition checks.
BadRegistry ==
    \/ groups = << >>
    \/ \E i \in 1..Len(groups) : Len(groups[i].members) < MinGroupMembers

\* C5: with no groups, an empty group or a group below min_group_members the
\* call fails before any day is scheduled: it never enters the loops, appends
\* no ledger record and returns no schedule.
C5_PreconditionsAbort ==
    /\ BadRegistry =>
          /\ status \in {"idle", "raised"}
          /\ status = "raised" =>
                /\ result.why \in {"no_groups", "empty_groups",
                                   "too_few_members"}
                /\ result.kind = "error"
                /\ Len(ledger) = run.ledger0
                /\ schedule = << >>
                /\ day = 0
    /\ (status = "raised" /\ result.why = "no_groups") => groups = << >>
    /\ (status = "raised" /\ result.why = "empty_groups") =>
          \E i \in 1..Len(groups) : groups[i].members = << >>
    /\ (status = "raised" /\ result.why = "too_few_members") =>
          \E i \in 1..Len(groups) :
              /\ result.who = <<groups[i].id>>
              /\ Len(groups[i].members) < MinGroupMembers

C5_Witness ==
    /\ status = "raised"
    /\ result.why = "too_few_members"
    /\ Len(groups) = 2
    /\ Len(groups[1].members) = 3
    /\ Len(groups[2].members) = 1

\* The call before had the arguments and the registry of the current one.
SameAsBefore ==
    /\ prev.valid
    /\ prev.groups = groups
    /\ prev.person_constraints = person_constraints
    /\ prev.year = run.year
    /\ prev.month = run.month
    /\ prev.holidays = run.holidays

\* C6: two calls with the same groups, constraints, year, month and holidays
\* end alike, with the same schedule or the same error, whatever the ledger
\* held and whatever call came before.
C6_Deterministic ==
    (status \in {"returned", "raised"} /\ SameAsBefore) => result = prev.result

C6_Witness ==
    /\ status = "returned"
    /\ SameAsBefore
    /\ run.ledger0 > 0
    /\ Len(groups) = 2
    /\ person_constraints # << >>

\* C7: when the unmet-minimum error is raised every day of the month has been
\* processed: the ledger holds exactly one record of this call for each
\* (day, group) of the month.
C7_RaisedAfterWholeMonth ==
    (status = "raised" /\ result.why = "min_days_unmet") =>
        /\ Len(ledger) =
              run.ledger0 + DaysInMonth(run.year, run.month) * Len(groups)
        /\ \A d \in 1..DaysInMonth(run.year, run.month) :
              \A i \in 1..Len(groups) :
                  Cardinality({k \in OwnRows :
                      /\ ledger[k].date = ToOrdinal(run.year, run.month, d)
                      /\ ledger[k].group_id = groups[i].id}) = 1

C7_Witness ==
    /\ status = "raised"
    /\ result.why = "min_days_unmet"
    /\ Len(groups) = 2
    /\ Len(ledger) = run.ledger0 + 62

\* The schedule entries of month (y, m) give the only group of gs, a pair, to
\* its first member on odd days and to its second on even days.
StrictlyAlternates(entries, gs, y, m) ==
    /\ DOMAIN entries = {StrfTime(y, m, d) : d \in 1..DaysInMonth(y, m)}
    /\ \A d \in 1..DaysInMonth(y, m) :
          entries[StrfTime(y, m, d)][gs[1].id]
              = gs[1].members[IF d % 2 = 1 THEN 1 ELSE 2]

\* The number of days of month (y, m) the entries give to person p.
DaysOf(entries, gs, y, m, p) ==
    Cardinality({d \in 1..DaysInMonth(y, m) :
                    entries[StrfTime(y, m, d)][gs[1].id] = p})

\* The counts of the pair differ by at most one: 16 and 15 in 31 days.
EvenSplit(entries, gs, y, m) ==
    LET a == DaysOf(entries, gs, y, m, gs[1].members[1])
        b == DaysOf(entries, gs, y, m, gs[1].members[2])
    IN /\ a + b = DaysInMonth(y, m)
       /\ a - b \in {0, 1}
       /\ DaysInMonth(y, m) = 31 => a = 16 /\ b = 15

SinglePair(gs) == Len(gs) = 1 /\ Len(gs[1].members) = 2

\* C8: with a single group of exactly two members [A, B] and no constraints,
\* the returned schedule gives A the odd days and B the even days, so nobody
\* is assigned twice in a row and the counts differ by at most one (16 and 15
\* in a 31-day month); the same for SchedulerService and the legacy Scheduler.
C8_PairAlternates ==
    /\ (/\ status = "returned"
        /\ SinglePair(groups)
        /\ person_constraints = << >>)
       => /\ StrictlyAlternates(result.entries, groups, run.year, run.month)
          /\ EvenSplit(result.entries, groups, run.year, run.month)
    /\ (/\ legacy_call.result.kind = "schedule"
        /\ SinglePair(legacy_groups))
       => /\ legacy_schedule = legacy_call.result.entries
          /\ StrictlyAlternates(legacy_schedule, legacy_groups,
                                legacy_call.year, legacy_call.month)
          /\ EvenSplit(legacy_schedule, legacy_groups,
                       legacy_call.year, legacy_call.month)

C8_Witness ==
    /\ status = "returned"
    /\ SinglePair(groups)
    /\ person_constraints = << >>
    /\ run.month = 3
    /\ legacy_call.result.kind = "schedule"
    /\ legacy_call.month = 3
    /\ DaysOf(result.entries, groups, 2024, 3, "A") = 16
    /\ DaysOf(legacy_schedule, legacy_groups, 2024, 3, "B") = 15

\* The classification by the stated precedence: long_weekend_middle, then
\* holiday, then weekend, then friday, then regular.
PrecedenceDayType(d, holidays) ==
    IF \E i \in 1..Len(holidays) :
           /\ Len(get_dates(holidays[i])) >= 3
           /\ get_dates(holidays[i])[1] < d
           /\ d < get_dates(holidays[i])[Len(get_dates(holidays[i]))]
    THEN "long_weekend_middle"
    ELSE IF \E i \in 1..Len(holidays) :
                /\ get_dates(holidays[i])[1] <= d
                /\ d <= get_dates(holidays[i])[Len(get_dates(holidays[i]))]
    THEN "holiday"
    ELSE IF Weekday(d) \in {5, 6} THEN "weekend"
    ELSE IF Weekday(d) = 4 THEN "friday"
    ELSE "regular"

\* C9: a date classified against a holiday list gets the type of the one
\* precedence: strictly inside a holiday of at least 3 days it is
\* long_weekend_middle, else within any holiday it is holiday, else on
\* Saturday or Sunday weekend, else on Friday friday, else regular.
C9_OnePrecedence ==
    /\ classified.get_day_type # NoDayType
          => classified.get_day_type
                 = PrecedenceDayType(classified.target_date,
                                     classified.holidays)
    /\ classified.analyze_period # NoDayType
          => classified.analyze_period
                 = PrecedenceDayType(classified.target_date,
                                     classified.holidays)

\* C10: every ledger row the call has appended carries the day type of its
\* date classified against the holiday list of the call, and the weight of
\* that day type: with a non-empty list a Monday-to-Thursday outside every
\* holiday is still regular, and a day strictly inside a holiday of at least
\* 3 days is long_weekend_middle.
C10_RowsCarryClassification ==
    \A k \in OwnRows :
        /\ ledger[k].day_type = PrecedenceDayType(ledger[k].date, run.holidays)
        /\ ledger[k].weight
               = get_base_weight(weights,
                                 PrecedenceDayType(ledger[k].date,
                                                   run.holidays))

Max(a, b) == IF a >= b THEN a ELSE b

\* C11: calculate_weight(date, day_type) returns the configured weight of
\* day_type, except that a holiday on a Saturday or Sunday is priced at the
\* larger of the holiday and the weekend weight; this under the default
\* weights and under every configuration installed through set_weight.
C11_HolidayOnWeekendMax ==
    (call.op = "calculate_weight" /\ call.day_type \in DayTypes) =>
        call.returned =
            IF call.day_type = "holiday" /\ Weekday(call.target_date) \in {5, 6}
            THEN Max(weights["holiday"], weights["weekend"])
            ELSE weights[call.day_type]

\* C13: set_weight with a weight <= 0 raises and leaves every weight as it
\* was, a successful set_weight changes the weight of the named day type
\* only, and so every day type always has a weight > 0.
C13_WeightsStayPositive ==
    /\ (call.op = "set_weight" /\ call.weight <= 0) =>
          /\ call.exc = "ValueError"
          /\ weights = call.before
    /\ (call.op = "set_weight" /\ call.weight > 0) =>
          /\ call.exc = ""
          /\ weights[call.day_type] = call.weight
          /\ \A t \in DayTypes \ {call.day_type} :
                weights[t] = call.before[t]
    /\ \A t \in DayTypes : weights[t] > 0

C13_Witness ==
    /\ call.op = "set_weight"
    /\ call.weight <= 0
    /\ call.exc = "ValueError"
    /\ call.before # DefaultWeights

\* C12: calculate_weight(date, holidays) prices the date by its place in the
\* holiday list: 2.5 strictly inside a holiday of at least 3 days (also on a
\* Saturday or Sunday), 2.0 on the first and last day of such a holiday and
\* on every day of a 1- or 2-day holiday, 1.5 on another Saturday or Sunday,
\* 1.2 on another Friday and 1.0 otherwise.
C12_PricedAgainstHolidays ==
    classified.calculate_weight # NoPrice =>
        /\ classified.calculate_weight.exc = ""
        /\ classified.calculate_weight.returned =
              DefaultWeights[PrecedenceDayType(classified.target_date,
                                               classified.holidays)]

\* The cumulative counters the next record of a pair starts from: those of
\* the pair's most recently inserted record, 0 when it has none.
CarriedFrom(rows, person, group_id) ==
    LET own == {i \in 1..Len(rows) : /\ rows[i].person = person
                                     /\ rows[i].group_id = group_id}
        last == CHOOSE i \in own : \A j \in own : j <= i
    IN IF own = {}
       THEN [regular |-> 0, weighted |-> 0, total |-> 0]
       ELSE [regular |-> rows[last].cumulative_regular_days,
             weighted |-> rows[last].cumulative_weighted_days,
             total |-> rows[last].cumulative_total_days]

\* C14: record_assignment returns and persists a record whose
\* cumulative_total_days is that of the pair's latest record plus 1 (1 if
\* none), whose cumulative_regular_days grows by 1 exactly for a regular day,
\* whose cumulative_weighted_days grows by the weight supplied, and whose
\* weight is the weight supplied; records of other pairs have no influence.
C14_CountersCarriedForward ==
    call.op = "record_assignment" =>
        LET a == call.assignment
            old == CarriedFrom(call.before, a.person, a.group_id)
            row == ledger[Len(ledger)]
        IN /\ Len(ledger) = Len(call.before) + 1
           /\ call.returned = row
           /\ row.person = a.person
           /\ row.group_id = a.group_id
           /\ row.cumulative_total_days = old.total + 1
           /\ row.cumulative_regular_days =
                 old.regular + (IF a.day_type = "regular" THEN 1 ELSE 0)
           /\ row.cumulative_weighted_days = old.weighted + a.weight
           /\ row.weight = a.weight

\* C15: the ledger is append-only.  Every step of a direct record_assignment
\* or of a generate run leaves each record already there as it was inserted,
\* and a record_assignment adds exactly one record.
C15_AppendOnly ==
    [][/\ Len(ledger') >= Len(ledger)
       /\ SubSeq(ledger', 1, Len(ledger)) = ledger
       /\ recorded' # recorded => Len(ledger') = Len(ledger) + 1]_vars

C15_Witness ==
    /\ call.op = "record_assignment"
    /\ runs >= 1
    /\ recorded >= 2
    /\ Len(call.before) > 28
    /\ LatestIndex(call.before, "A", "g1") > 0
    /\ Len(ledger) = Len(call.before) + 1

\* The ids of the ledger rows of a (person, group) pair.
PairIds(person, group_id) ==
    {i \in 1..Len(ledger) : /\ ledger[i].person = person
                            /\ ledger[i].group_id = group_id}

\* The sum of the weights of the ledger rows with ids in S.
RECURSIVE WeightOfIds(_)
WeightOfIds(S) ==
    IF S = {} THEN 0
    ELSE LET i == CHOOSE j \in S : TRUE
         IN ledger[i].weight + WeightOfIds(S \ {i})

\* C16: get_person_stats(person, group) returns, over the records of the
\* pair, the number of records of each of the five day types, their total
\* number and the sum of their weights; the five counts add up to the total,
\* and a pair without records gets zeros.
C16_StatsCountEveryType ==
    call.op = "get_person_stats" =>
        LET own == PairIds(call.person, call.group_id)
            N(t) == Cardinality({i \in own : ledger[i].day_type = t})
            st == call.returned
        IN /\ st.regular_days = N("regular")
           /\ st.friday_count = N("friday")
           /\ st.weekend_days = N("weekend")
           /\ st.holiday_days = N("holiday")
           /\ st.long_weekend_days = N("long_weekend_middle")
           /\ st.total_assignments = Cardinality(own)
           /\ st.total_weighted_score = WeightOfIds(own)
           /\ st.regular_days + st.friday_count + st.weekend_days
                 + st.holiday_days + st.long_weekend_days
                 = st.total_assignments

\* The sum of f[x] over the x in S.
RECURSIVE SumOf(_, _)
SumOf(f, S) ==
    IF S = {} THEN 0
    ELSE LET x == CHOOSE y \in S : TRUE IN f[x] + SumOf(f, S \ {x})

\* The distinct persons with records in a group.
PersonsIn(group_id) ==
    {ledger[i].person : i \in {j \in 1..Len(ledger) :
                                  ledger[j].group_id = group_id}}

\* C17: get_fairness_metrics(group) returns, over the distinct persons with
\* records in the group, the population standard deviation of their total
\* weighted scores, the largest minus the smallest score and the largest
\* minus the smallest number of assignments, and zeros for a group without
\* records.  With scores x over n persons the population variance is
\* (n * sum(x^2) - sum(x)^2) / n^2; the deviation returned, in hundredths, is
\* the square root of 100 times that (scores being in tenths), rounded down.
C17_FairnessMetrics ==
    call.op = "get_fairness_metrics" =>
        LET P == PersonsIn(call.group_id)
            n == Cardinality(P)
            score == [p \in P |-> WeightOfIds(PairIds(p, call.group_id))]
            count == [p \in P |-> Cardinality(PairIds(p, call.group_id))]
            squares == [p \in P |-> score[p] * score[p]]
            var100 == 100 * (n * SumOf(squares, P)
                             - SumOf(score, P) * SumOf(score, P))
            m == call.returned
        IN IF P = {}
           THEN /\ m.weighted_std_dev = 0
                /\ m.max_weighted_diff = 0
                /\ m.max_total_diff = 0
           ELSE /\ \E p \in P, q \in P :
                      /\ \A r \in P : score[q] <= score[r] /\ score[r] <= score[p]
                      /\ m.max_weighted_diff = score[p] - score[q]
                /\ \E p \in P, q \in P :
                      /\ \A r \in P : count[q] <= count[r] /\ count[r] <= count[p]
                      /\ m.max_total_diff = count[p] - count[q]
                /\ m.weighted_std_dev >= 0
                /\ m.weighted_std_dev * m.weighted_std_dev * n * n <= var100
                /\ var100 < (m.weighted_std_dev + 1)
                                * (m.weighted_std_dev + 1) * n * n

C17_Witness ==
    /\ call.op = "get_fairness_metrics"
    /\ call.group_id = "g1"
    /\ PersonsIn("g1") = {"A", "B"}
    /\ WeightOfIds(PairIds("A", "g1")) = 35
    /\ WeightOfIds(PairIds("B", "g1")) = 10
    /\ call.returned.max_weighted_diff = 25
    /\ call.returned.weighted_std_dev = 125
    /\ call.returned.max_total_diff = 1

\* C18: constructing a Holiday whose end_date is earlier than its start_date
\* fails and gives no Holiday; with end_date absent, equal to start_date or
\* later, it succeeds with the two dates given.
C18_EndBeforeStartRejected ==
    call.op = "Holiday" =>
        IF call.end_date # NoneVal /\ call.end_date < call.start_date
        THEN call.exc # "" /\ call.holiday = NoHoliday
        ELSE /\ call.exc = ""
             /\ call.holiday.start_date = call.start_date
             /\ call.holiday.end_date = call.end_date

C18_Witness ==
    /\ call.op = "Holiday"
    /\ call.end_date # NoneVal
    /\ call.end_date < call.start_date
    /\ call.exc = "ValidationError"

\* C19: get_dates() returns the dates from start_date to end_date inclusive,
\* ascending by one day each (no gap, no duplicate), end - start + 1 of them,
\* and just [start_date] when end_date is absent or equal to start_date.
C19_DatesInclusive ==
    call.op = "get_dates" =>
        LET h == call.holiday
            ds == call.returned
        IN /\ Len(ds) >= 1
           /\ ds[1] = h.start_date
           /\ \A i \in 1..(Len(ds) - 1) : ds[i + 1] = ds[i] + 1
           /\ (h.end_date = NoneVal \/ h.end_date = h.start_date)
                 => ds = <<h.start_date>>
           /\ h.end_date # NoneVal =>
                 /\ ds[Len(ds)] = h.end_date
                 /\ Len(ds) = h.end_date - h.start_date + 1

C19_Witness ==
    /\ call.op = "get_dates"
    /\ call.holiday = Easter
    /\ call.returned = <<ToOrdinal(2024, 3, 29), ToOrdinal(2024, 3, 30),
                         ToOrdinal(2024, 3, 31), ToOrdinal(2024, 4, 1)>>

\* C20: add_person_to_group with an empty or blank name, or with a min_days
\* above the max_days, raises an error and leaves the groups and the person
\* constraints exactly as they were before the call.
C20_RejectedAddChangesNothing ==
    (/\ call.op = "add_person_to_group"
     /\ \/ call.person \in {"", " "}
        \/ /\ call.min_days # NoneVal
           /\ call.max_days # NoneVal
           /\ call.min_days > call.max_days)
    => /\ call.exc = "ValueError"
       /\ groups = call.before.groups
       /\ person_constraints = call.before.person_constraints

C20_Witness ==
    /\ call.op = "add_person_to_group"
    /\ call.person = "A"
    /\ call.min_days = 2
    /\ call.max_days = 1
    /\ call.exc = "ValueError"
    /\ Len(groups) = 2
    /\ HasConstraint(person_constraints, "A")

\* A list without repeated elements.
NoRepeats(xs) == \A j, k \in 1..Len(xs) : xs[j] = xs[k] => j = k

\* C21: after any sequence of add_person_to_group, bulk_add_groups,
\* bulk_add_people_to_groups, remove_person_from_group and delete_group calls,
\* no group of SchedulerService or of the legacy Scheduler lists a name twice.
C21_MembersUnique ==
    /\ \A i \in 1..Len(groups) : NoRepeats(groups[i].members)
    /\ \A i \in 1..Len(legacy_groups) : NoRepeats(legacy_groups[i].members)

\* A bulk request that named A twice for the first group has been served.
C21_Witness ==
    /\ call.op = "bulk_add_people_to_groups"
    /\ call.returned
    /\ ~HasGroup(groups, GroupIds[2])
    /\ IsMember(groups, GroupIds[1], "A")
    /\ IsMember(legacy_groups, GroupIds[1], "A")

\* C22: remove_person_from_group for an unknown group or for a person who is
\* not a member of the group, and delete_group for an unknown group, return
\* False and leave all groups and all person constraints unchanged, in
\* SchedulerService and (for its groups) in the legacy Scheduler.
C22_NotFoundChangesNothing ==
    [][/\ (\/ /\ call'.op = "remove_person_from_group"
              /\ ~IsMember(groups, call'.group_id, call'.person)
           \/ /\ call'.op = "delete_group"
              /\ ~HasGroup(groups, call'.group_id))
          => /\ call'.returned = FALSE
             /\ groups' = groups
             /\ person_constraints' = person_constraints
       /\ (\/ /\ call'.op = "remove_person_from_group"
              /\ ~IsMember(legacy_groups, call'.group_id, call'.person)
           \/ /\ call'.op = "delete_group"
              /\ ~HasGroup(legacy_groups, call'.group_id))
          => /\ call'.legacy_returned = FALSE
             /\ legacy_groups' = legacy_groups]_vars

\* A removal was refused for a person who has constraints and is a member of
\* the other group only.
C22_Witness ==
    /\ call.op = "remove_person_from_group"
    /\ ~call.returned
    /\ ~call.legacy_returned
    /\ HasGroup(groups, call.group_id)
    /\ ~IsMember(groups, call.group_id, call.person)
    /\ HasConstraint(person_constraints, call.person)

\* No person has a max_days constraint.
NoMaxDays ==
    \A i \in 1..Len(person_constraints) :
        person_constraints[i].max_days = NoneVal

\* C23: in a run over groups of at least min_group_members members each,
\* with no max_days constraint anywhere, eligible_members is never empty (the
\* fallback to the full member list is never taken), also when groups share
\* members.
C23_NoFallbackWithoutMaxDays ==
    NoMaxDays => fallbacks = {}

\* A step of the run that picked somebody: it appended a row to the ledger.
Picks == status = "running" /\ Len(ledger') = Len(ledger) + 1

\* The person picked by the step.
Picked == ledger'[Len(ledger')].person

\* The candidate list of the (day, group) about to be served: the eligibility
\* set, or the full member list when it is empty.
CandidateSet ==
    LET members == groups[gidx].members
        elig == {p \in Persons :
                    /\ \E k \in 1..Len(members) : members[k] = p
                    /\ IsEligible(p, last_scheduled, assignments_count,
                                  person_constraints, run.year, run.month, day)}
    IN IF elig = {} THEN {members[k] : k \in 1..Len(members)} ELSE elig

\* The candidates whose assignment count is below their min_days.
UnmetSet ==
    {p \in CandidateSet :
        \E i \in 1..Len(person_constraints) :
            /\ person_constraints[i].person = p
            /\ person_constraints[i].min_days # NoneVal
            /\ CountOf(assignments_count, p) < person_constraints[i].min_days}

\* The position of p in the member list of the group about to be served.
MemberPos(p) ==
    CHOOSE k \in 1..Len(groups[gidx].members) : groups[gidx].members[k] = p

\* p is, among S, the first in member order never assigned in this run if
\* there is one, else one with the oldest last-assigned date.
IsRotationPick(p, S) ==
    LET never == {q \in S : q \notin DOMAIN last_scheduled}
    IN /\ p \in S
       /\ IF never # {}
          THEN p \in never /\ \A q \in never : MemberPos(p) <= MemberPos(q)
          ELSE \A q \in S : ~StrLess(last_scheduled[q], last_scheduled[p])

\* C24: whenever the candidate list of a (day, group) holds a member whose
\* assignment count is below their min_days, the person picked is one of
\* those members: the first of them in member order never assigned in this
\* run, else the one of them with the oldest last-assigned date.
C24_CatchUpFirst ==
    [][(Picks /\ UnmetSet # {}) => IsRotationPick(Picked, UnmetSet)]_vars

\* In a single group, the constrained person has been picked twice while
\* another member has not been picked at all.
C24_Witness ==
    /\ status = "running"
    /\ Len(groups) = 1
    /\ \E p, q \in Persons :
          /\ HasConstraint(person_constraints, p)
          /\ ConstraintOf(person_constraints, p).min_days # NoneVal
          /\ CountOf(assignments_count, p) = 2
          /\ \E k \in 1..Len(groups[1].members) : groups[1].members[k] = q
          /\ q \notin DOMAIN last_scheduled

\* p is, among S, a rotation pick that stands first in member order among
\* those of S with its last-assigned date.
IsFirstRotationPick(p, S) ==
    /\ IsRotationPick(p, S)
    /\ (\A q \in S : q \in DOMAIN last_scheduled)
       => \A q \in S : last_scheduled[q] = last_scheduled[p]
                          => MemberPos(p) <= MemberPos(q)

\* C25: when no candidate has an unmet min_days, the person picked is the
\* first candidate in member order never assigned in this run; if every
\* candidate has been assigned, the one with the oldest last-assigned date,
\* and among those with the same date the first in the member list.
C25_RotationPick ==
    [][(Picks /\ UnmetSet = {}) => IsFirstRotationPick(Picked, CandidateSet)]_vars

\* Day 2, first group: A, picked for it on day 1, and B, picked elsewhere on
\* day 1, had the same last date, and A was picked.
C25_Witness ==
    /\ status = "running"
    /\ person_constraints = << >>
    /\ day = 2
    /\ gidx = 2
    /\ day_schedule[GroupIds[1]] = "A"
    /\ schedule[StrfTime(run.year, run.month, 1)][GroupIds[1]] = "A"
    /\ "B" \in DOMAIN last_scheduled
    /\ last_scheduled["B"] = StrfTime(run.year, run.month, 1)
    /\ groups[1].members = <<"A", "B">>

\* p's assignment count is below p's max_days, if p has one.
UnderMax(p) ==
    \A i \in 1..Len(person_constraints) :
        (person_constraints[i].person = p
         /\ person_constraints[i].max_days # NoneVal)
        => CountOf(assignments_count, p) < person_constraints[i].max_days

\* The eligibility set of the (day, group) about to be served: the members
\* not assigned the day before whose count is below their max_days.
EligibilitySet ==
    {p \in Persons :
        /\ \E k \in 1..Len(groups[gidx].members) : groups[gidx].members[k] = p
        /\ \/ p \notin DOMAIN last_scheduled
           \/ last_scheduled[p] # StrfTime(run.year, run.month, day - 1)
        /\ UnderMax(p)}

\* C26: on a (day, group) whose eligibility set is not empty the person
\* picked has an assignment count below their max_days before the pick; a
\* person already at max_days is picked only where the set was empty, through
\* the fallback to the full member list.
C26_AtMaxOnlyByFallback ==
    [][Picks =>
          /\ EligibilitySet # {} => Picked \in EligibilitySet
          /\ ~UnderMax(Picked) =>
                /\ EligibilitySet = {}
                /\ <<StrfTime(run.year, run.month, day), groups[gidx].id>>
                      \in fallbacks']_vars

\* Somebody has been picked beyond their max_days, through a fallback.
C26_Witness ==
    /\ fallbacks # {}
    /\ \E i \in 1..Len(person_constraints) :
          /\ person_constraints[i].max_days # NoneVal
          /\ CountOf(assignments_count, person_constraints[i].person)
                > person_constraints[i].max_days

\* C27: within one generated schedule no person is assigned to more than one
\* group on the same date, also when the person is a member of several
\* groups.
C27_OneGroupPerPersonPerDay ==
    /\ \A d \in DOMAIN schedule :
          \A g1, g2 \in DOMAIN schedule[d] :
              schedule[d][g1] = schedule[d][g2] => g1 = g2
    /\ \A g1, g2 \in DOMAIN day_schedule :
          day_schedule[g1] = day_schedule[g2] => g1 = g2

\* C28: a run that passes the preconditions appends one ledger row per
\* (day, group), days ascending and, within a day, groups in registration
\* order: its j-th row is for day (j - 1) \div n + 1 and group
\* (j - 1) % n + 1 of the n groups, the rows so far are those of the pairs
\* before the loops' position, and a finished run has appended
\* daysInMonth * n rows, whose dates never decrease.
C28_OneRowPerDayAndGroup ==
    LET n == Len(groups)
    IN /\ \A k \in OwnRows :
             /\ ledger[k].date =
                   ToOrdinal(run.year, run.month,
                             ((k - run.ledger0 - 1) \div n) + 1)
             /\ ledger[k].group_id =
                   groups[((k - run.ledger0 - 1) % n) + 1].id
       /\ \A j, k \in OwnRows : j <= k => ledger[j].date <= ledger[k].date
       /\ status = "running" =>
             Len(ledger) = run.ledger0 + (day - 1) * n + (gidx - 1)
       /\ RunEnded =>
             Len(ledger) = run.ledger0 + DaysInMonth(run.year, run.month) * n

\* A second run, over two groups and the 31 days of March, has returned.
C28_Witness ==
    /\ status = "returned"
    /\ runs = 2
    /\ run.ledger0 > 0
    /\ Len(groups) = 2
    /\ Len(ledger) = run.ledger0 + 62

\* The candidate list _select_person is about to receive.
NextCandidates ==
    Candidates(groups[gidx].members,
               EligibleMembers(groups[gidx].members, last_scheduled,
                               assignments_count, person_constraints,
                               run.year, run.month, day))

\* C29: every run terminates.  A precondition error is raised before day 1
\* (nothing scheduled, nothing recorded); otherwise no pick lacks candidates
\* (an empty eligibility set falls back to the non-empty member list), every
\* day 1..daysInMonth is processed, and the run then returns the schedule or
\* raises the unmet-minimum error.
C29_RunTerminates ==
    /\ []((status = "running" /\ day \in 1..run.num_days)
            => NextCandidates # << >>)
    /\ []((status = "raised" /\ result.why # "min_days_unmet")
            => /\ schedule = << >>
               /\ Len(ledger) = run.ledger0)
    /\ [](RunEnded => /\ day = run.num_days + 1
                      /\ DOMAIN schedule = MonthDates)
    /\ (status = "running") ~> (status \in {"returned", "raised"})

\* A run that needed the fallback on some day has returned.
C29_Witness ==
    /\ status = "returned"
    /\ fallbacks # {}
    /\ DOMAIN result.entries = MonthDates

\* The days of the month some group has been served for, at the loop
\* position (d, gi): the days before d, and d itself once its first group is
\* done.
DaysSeenAt(d, gi) == IF gi > 1 THEN 1..d ELSE 1..(d - 1)

\* C30: a get_schedule made while the run of that month is in flight (the
\* month having no rows before the run) sees exactly the dates of the days
\* served so far, as every row is committed when it is appended: days 1..k of
\* the month, with k < daysInMonth until the last day is begun.
C30_ReaderSeesServedDays ==
    (/\ call.op = "get_schedule"
     /\ call.in_flight
     /\ call.fresh)
    => /\ call.dates = {StrfTime(call.year, call.month, d) :
                           d \in DaysSeenAt(call.day, call.gidx)}
       /\ (\/ call.day < DaysInMonth(call.year, call.month)
           \/ (call.day = DaysInMonth(call.year, call.month)
               /\ call.gidx = 1))
          => Cardinality(call.dates) < DaysInMonth(call.year, call.month)

\* A reader saw days 1..10 of a month while its run was in flight.
C30_Witness ==
    /\ call.op = "get_schedule"
    /\ call.in_flight
    /\ call.fresh
    /\ Cardinality(call.dates) = 10
    /\ call.dates = {StrfTime(call.year, call.month, d) : d \in 1..10}
    /\ status = "running"

\* C31: classification is total and exclusive: each classifier answers every
\* date and holiday list (empty and overlapping lists included) with exactly
\* one DayType, and a repeated call with the same date and list gives the
\* answer of the first.
C31_ClassificationTotal ==
    /\ call.op = "get_day_type"
          => /\ call.returned \in DayTypes
             /\ call.returned = classified.get_day_type
    /\ call.op = "analyze_period"
          => /\ call.returned \in DayTypes
             /\ call.returned = classified.analyze_period

\* A date covered by two holidays of the list has been classified by both
\* classifiers, analyze_period last.
C31_Witness ==
    /\ call.op = "analyze_period"
    /\ classified.get_day_type \in DayTypes
    /\ classified.analyze_period \in DayTypes
    /\ classified.target_date = ToOrdinal(2024, 3, 30)
    /\ Len(classified.holidays) = 2

\* The holidays of the list, by index, whose dates contain the date, and the
\* first of them in list order (0 when there is none).
HolidaysContaining(d, holidays) ==
    {i \in 1..Len(holidays) :
        /\ get_dates(holidays[i])[1] <= d
        /\ d <= get_dates(holidays[i])[Len(get_dates(holidays[i]))]}

FirstHolidayOf(d, holidays) ==
    LET hits == HolidaysContaining(d, holidays)
    IN IF hits = {} THEN 0 ELSE CHOOSE i \in hits : \A j \in hits : i <= j

\* The DayType one holiday gives a date it contains.
DayTypeIn(d, holiday) ==
    IF /\ Len(get_dates(holiday)) >= MinLongWeekendDays
       /\ get_dates(holiday)[1] < d
       /\ d < get_dates(holiday)[Len(get_dates(holiday))]
    THEN "long_weekend_middle"
    ELSE "holiday"

\* C32: a date that lies in overlapping holidays of the list is classified
\* by the first holiday in list order that contains it.
C32_FirstHolidayDecides ==
    LET first == FirstHolidayOf(classified.target_date, classified.holidays)
    IN Cardinality(HolidaysContaining(classified.target_date,
                                      classified.holidays)) >= 2 =>
         /\ classified.analyze_period # NoDayType
               => classified.analyze_period
                    = DayTypeIn(classified.target_date,
                                classified.holidays[first])
         /\ classified.get_day_type # NoDayType
               => classified.get_day_type
                    = DayTypeIn(classified.target_date,
                                classified.holidays[first])

\* The first and last date of a holiday, from its fields.
FirstDate(holiday) == holiday.start_date

LastDate(holiday) ==
    IF holiday.end_date = NoneVal THEN holiday.start_date ELSE holiday.end_date

\* C33: get_middle_days(start, end) is the set of the dates strictly between
\* start and end, empty when start >= end or when end is the day after
\* start; is_middle_day(d, holidays) holds exactly when d is strictly between
\* the first and the last date of a holiday of the list that spans at least
\* 3 days.
C33_MiddleDays ==
    /\ call.op = "get_middle_days"
          => /\ call.returned
                  = {d \in call.start_date..call.end_date :
                        call.start_date < d /\ d < call.end_date}
             /\ (call.start_date >= call.end_date
                    \/ call.end_date = call.start_date + 1)
                   => call.returned = {}
    /\ call.op = "is_middle_day"
          => call.returned
               = (\E i \in 1..Len(classified.holidays) :
                    /\ LastDate(classified.holidays[i])
                         - FirstDate(classified.holidays[i]) + 1
                         >= MinLongWeekendDays
                    /\ FirstDate(classified.holidays[i])
                         < classified.target_date
                    /\ classified.target_date
                         < LastDate(classified.holidays[i]))

\* get_middle_days has returned the two dates between the ends of a 4-day
\* span.
C33_Witness ==
    /\ call.op = "get_middle_days"
    /\ call.start_date = ToOrdinal(2024, 3, 29)
    /\ call.end_date = ToOrdinal(2024, 4, 1)
    /\ call.returned = {ToOrdinal(2024, 3, 30), ToOrdinal(2024, 3, 31)}

\* The counters of the pair's latest record agree with the pair's records.
CountersAgree(rows, person, group_id) ==
    LET own == RowsOfPair(rows, person, group_id)
        latest == rows[LatestIndex(rows, person, group_id)]
    IN own # << >> =>
         /\ latest.cumulative_total_days = Len(own)
         /\ latest.cumulative_regular_days = CountOfType(own, "regular")
         /\ latest.cumulative_weighted_days
              = SeqSum([i \in 1..Len(own) |-> own[i].weight])
         /\ latest.cumulative_total_days
              = get_person_stats(rows, person, group_id).total_assignments
         /\ latest.cumulative_regular_days
              = get_person_stats(rows, person, group_id).regular_days
         /\ latest.cumulative_weighted_days
              = get_person_stats(rows, person, group_id).total_weighted_score

\* C34: in every ledger state reached by record_assignment calls made one
\* after the other, directly or by generate runs, the most recently inserted
\* record of every (person, group) has cumulative_total_days equal to the
\* number of the pair's records, cumulative_regular_days equal to the number
\* of them of day_type regular and cumulative_weighted_days equal to the sum
\* of their weights, as get_person_stats counts them.
C34_CountersAgree ==
    \A i \in 1..Len(ledger) :
        CountersAgree(ledger, ledger[i].person, ledger[i].group_id)

\* A pair has records of a generate run and direct records, one of them a
\* regular day that came with a weight of 3.0.
C34_Witness ==
    /\ runs >= 1
    /\ recorded >= 2
    /\ Len(RowsOfPair(ledger, "A", "g1")) >= 4
    /\ \E i \in 1..Len(ledger) :
          /\ ledger[i].person = "A"
          /\ ledger[i].date = ToOrdinal(2024, 1, 4)
          /\ ledger[i].weight = 10

\* C35: when two sessions interleave the steps of their record_assignment
\* calls for one (person, group), the pair's most recently inserted record
\* still has cumulative_total_days equal to the number of the pair's
\* records: no update is lost.
C35_NoLostUpdate ==
    \A i \in 1..Len(ledger) :
        ledger[LatestIndex(ledger, ledger[i].person, ledger[i].group_id)]
            .cumulative_total_days
          = Len(RowsOfPair(ledger, ledger[i].person, ledger[i].group_id))

\* The person has a min_days or a max_days in the constraints.
IsConstrained(pc, p) ==
    /\ HasConstraint(pc, p)
    /\ \/ ConstraintOf(pc, p).min_days # NoneVal
       \/ ConstraintOf(pc, p).max_days # NoneVal

\* C36: remove_person_from_group(p, g) and delete_group(g) neither drop nor
\* change the min_days and max_days of a person who is still a member of
\* another group after the call.
C36_ConstraintsKeptWhileMember ==
    [][call'.op \in {"remove_person_from_group", "delete_group"}
          => \A p \in MemberNames :
                (IsConstrained(person_constraints, p) /\ p \in AllMembers(groups'))
                   => /\ HasConstraint(person_constraints', p)
                      /\ ConstraintOf(person_constraints', p)
                           = ConstraintOf(person_constraints, p)]_vars

\* C37: a bulk_add_people_to_groups call that raises GroupNotFoundException
\* for one group of the request leaves the in-memory groups and person
\* constraints as they were before the call.
C37_RaisedBulkAddChangesNothing ==
    [][(call'.op = "bulk_add_people_to_groups" /\ ~call'.returned)
          => /\ groups' = groups
             /\ person_constraints' = person_constraints]_vars

\* The (date_str, group_id) pairs of a Schedule.
EntryKeysOf(entries) ==
    UNION {{<<d, g>> : g \in DOMAIN entries[d]} : d \in DOMAIN entries}

\* C38: after generate_monthly_schedule(y, m) has returned a schedule,
\* get_schedule(y, m) returns the same date -> group -> person mapping,
\* whatever came before, an earlier generation of the same month included.
C38_ReadBackSame ==
    (/\ call.op = "get_schedule"
     /\ status = "returned"
     /\ call.runs = runs)
    => /\ call.keys = EntryKeysOf(result.entries)
       /\ call.date_str \in DOMAIN result.entries
       /\ call.group_id \in DOMAIN result.entries[call.date_str]
       /\ result.entries[call.date_str][call.group_id] = call.person

\* The locals of SchedulerService.generate_monthly_schedule that the legacy
\* loops have too, after a step (primed) and before it.
ServiceLocals ==
    [day |-> day, gi |-> gidx, schedule |-> schedule,
     day_schedule |-> day_schedule, last_scheduled |-> last_scheduled]

ServiceLocalsAfter ==
    [day |-> day', gi |-> gidx', schedule |-> schedule',
     day_schedule |-> day_schedule', last_scheduled |-> last_scheduled']

\* C39: on a registry without min_days and max_days, the two services
\* generate the same schedule for the same groups, member order, year and
\* month.  Both start from the same locals, and every (day, group) step of
\* SchedulerService leaves the day, the schedule so far and last_scheduled as
\* the legacy iteration leaves them from the same locals; hence a schedule
\* returned by one is the schedule returned by the other.
C39_SameAsLegacy ==
    /\ [][/\ (status # "running" /\ status' = "running")
             => ServiceLocalsAfter = LegacyLocals
          /\ (status = "running" /\ status' = "running")
             => ServiceLocalsAfter
                  = LegacyIteration(legacy_groups, run.year, run.month,
                                    ServiceLocals)]_vars
    /\ [](/\ status = "returned"
          /\ legacy_call.result.kind = "schedule"
          /\ legacy_call.year = run.year
          /\ legacy_call.month = run.month
          => result.entries = legacy_call.result.entries)

\* Both services have returned the schedule of March 2024 for two groups that
\* share a member, the SchedulerService run with a fallback on the way.
C39_Witness ==
    /\ status = "returned"
    /\ run.month = 3
    /\ legacy_call.result.kind = "schedule"
    /\ legacy_call.month = 3
    /\ Len(groups) = 2
    /\ legacy_groups = groups
    /\ AllMembers(<<groups[1]>>) \cap AllMembers(<<groups[2]>>) # {}
    /\ fallbacks # {}
    /\ result.entries = legacy_schedule

====
